---- MODULE Spec2Model ----
(***************************************************************************)
(* A model of sketchybartender: the workspace snapshot reader              *)
(* (aerospace.rs), the reconciliation pass handle_workspace_refresh        *)
(* (handlers.rs, and its older variant in main.rs), the command batch and  *)
(* the mach transport's port cache (mach_client.rs) and the display mapper *)
(* (monitor_map.rs).                                                       *)
(*                                                                         *)
(* Each part of the program has its own specification over the module's    *)
(* variables:                                                              *)
(*   SpecSnap    one call of aerospace::get_workspace_infos                *)
(*   Spec        concurrent handlers::handle_workspace_refresh             *)
(*   SpecGate    the same, on a fine clock, for the debounce gate          *)
(*   SpecMach    concurrent mach_client::sketchybar                        *)
(*   SpecRender  the per-workspace directive of the two render loops       *)
(*   SpecMain    concurrent main.rs handle_workspace_refresh               *)
(*   SpecMapper  concurrent MonitorMapper::get_mappings on one mapper      *)
(*   SpecSnapFair  SpecSnap with a call that keeps running                 *)
(*   SpecFormat  mach_client::format_message on one command string         *)
(*   SpecBatch   the calls on one SketchybarBatch                          *)
(*   SpecBuild   one call of MonitorMapper::build_mappings                 *)
(*   SpecDaemon  daemon.rs handle_client on one thread per connection      *)
(*   SpecPass    the handler on a still window manager, with fairness      *)
(* The variables of the other parts stay at their initial values.          *)
(***************************************************************************)
EXTENDS Integers, Sequences, FiniteSets, TLC

(***************************************************************************)
(* Bounds of the model.                                                    *)
(***************************************************************************)
MaxWindows == 2      \* longest window list a read of the window manager returns
MaxTime == 200       \* the clock stops advancing here (ms)
MaxEvents == 3       \* notifications handled in one behaviour

\* Option<T>: None, or Some(x).
None == <<>>
Some(x) == <<x>>

(***************************************************************************)
(* The window manager's vocabulary.                                        *)
(***************************************************************************)
Apps == {"AppX", "AppY"}
AppOrder == <<"AppX", "AppY">>            \* the order of String's Ord
Workspaces == {"1", "2"}
WsOrder == <<"1", "2">>                   \* the order of String's Ord
Displays == {1, 2, 3}

\* The monitor a workspace sits on in the model's window manager.
MonitorOf(ws) == IF ws = "1" THEN 1 ELSE 2

\* aerospace.rs WindowInfo: one record of `aerospace list-windows --json`.
WindowInfo ==
    { [app_name |-> a, workspace |-> ws, workspace_is_focused |-> f,
       display_id |-> MonitorOf(ws)] : a \in Apps, ws \in Workspaces, f \in BOOLEAN }

\* The window lists a read can return.
WindowLists ==
    UNION { [1..n -> WindowInfo] : n \in 0..MaxWindows }

\* aerospace.rs FocusedWorkspaceInfo, the answers of get_focused_workspace:
\* None (the command failed, or the list was empty) or the focused workspace.
FocusedWorkspaceInfo ==
    { [workspace |-> ws, display_id |-> MonitorOf(ws)] : ws \in Workspaces }
FocusAnswers == {None} \cup { Some(f) : f \in FocusedWorkspaceInfo }

Range(s) == { s[i] : i \in DOMAIN s }

(***************************************************************************)
(* State.                                                                  *)
(***************************************************************************)
VARIABLES
    \* -- SpecSnap: one call of aerospace::get_workspace_infos
    gPc,                  \* position in the call
    show_all_windows,     \* its argument
    windows,              \* the last window list read
    initial_window_count, \* the length of the first window list read
    retry_count,
    workspace_data,       \* workspace -> (apps, is_focused, display_id)
    result,               \* the returned map of WorkspaceInfo
    readLens,             \* history: the length of every window list read
    delays,               \* history: the sleeps made, in ms
    focusAsked,           \* history: get_focused_workspace was called
    focusAnswer           \* history: what get_focused_workspace answered

varsSnap == <<gPc, show_all_windows, windows, initial_window_count, retry_count,
              workspace_data, result, readLens, delays, focusAsked, focusAnswer>>

VARIABLES
    \* -- Spec: handlers::handle_workspace_refresh on concurrent threads
    clock,                  \* Instant::now(), in ms
    wm,                     \* the state of the window manager, or Down
    shown,                  \* the renderer: the workspace items it draws
    last_workspace_change,  \* DaemonState
    previous_workspaces,    \* DaemonState
    pc,                     \* per thread: position in handle_workspace_refresh
    now,                    \* per thread: let now = Instant::now()
    all_displays,           \* per thread
    infos,                  \* per thread
    prev,                   \* per thread: the local previous_workspaces
    batches,                \* per thread: display id -> sequence of directives
    readOk,                 \* history, per thread: the snapshot queries succeeded
    gateLog                 \* history: (timestamp, decision) in gate order

varsRefresh == <<clock, wm, shown, last_workspace_change,
                 previous_workspaces, pc, now, all_displays, infos, prev, batches, readOk, gateLog>>

VARIABLES
    \* -- SpecMach: mach_client::sketchybar on concurrent callers
    MACH_PORT,              \* the global port cache: Option<mach_port_t>
    servicePort,            \* the port sketchybar is registered under; 0: none
    cPc,                    \* per caller: position in sketchybar()
    cPort,                  \* per caller: the port it sends to
    outcome,                \* history, per caller: how its last call ended
    lookups,                \* history: calls of get_sketchybar_port
    calls                   \* history: calls of sketchybar()

varsMach == <<MACH_PORT, servicePort, cPc, cPort, outcome, lookups, calls>>

VARIABLES
    \* -- SpecRender: the directive of one workspace in the render loops
    rI,                     \* the workspace: its index 1..9, its id the decimal
    rInfo,                  \* its WorkspaceInfo
    rSingle,                \* is_single_monitor
    rPosition,              \* its position in the sorted bar
    rOut,                   \* the settings of handlers.rs, once computed
    rMainOut                \* the settings of main.rs, once computed

varsRender == <<rI, rInfo, rSingle, rPosition, rOut, rMainOut>>

VARIABLES
    \* -- SpecMain: main.rs, handle_workspace_refresh on concurrent threads
    stateLock,              \* the holder of the Mutex<DaemonState>, or "free"
    mPc,                    \* per thread: position in handle_workspace_refresh
    mCache,                 \* MonitorMapper.cache: Option<CacheEntry>
    mTime,                  \* Instant::now(), in seconds
    screens,                \* the display arrangement, or 0: the queries fail
    mMappings,              \* per thread: monitor_mappings
    mInfos,                 \* per thread: infos
    mBatches,               \* per thread: display id -> sequence of directives
    mShown,                 \* the renderer: the workspace items it draws
    displayChanged          \* history: a display-configuration-changed
                            \* notification arrived after the last rebuild

varsMain == <<stateLock, mPc, mCache, mTime, screens, mMappings, mInfos,
              mBatches, mShown, displayChanged>>

VARIABLES
    \* -- SpecFormat: mach_client::format_message on one command string
    fmIn,                   \* the command: a sequence of characters
    fmOut                   \* the bytes returned, once computed

varsFormat == <<fmIn, fmOut>>

VARIABLES
    \* -- SpecBatch: one SketchybarBatch
    bArgs,                  \* SketchybarBatch.args: a sequence of strings
    bDelivered,             \* history: the commands handed to the transport
    bResult,                \* what the last execute returned
    bExecs,                 \* history: calls of execute
    bTokens                 \* history: the tokens of the calls, values as passed

varsBatch == <<bArgs, bDelivered, bResult, bExecs, bTokens>>

VARIABLES
    \* -- SpecBuild: one call of MonitorMapper::build_mappings
    bmIn,                   \* the three maps the queries return
    bmOut                   \* the mapping returned, once computed

varsBuild == <<bmIn, bmOut>>

VARIABLES
    \* -- SpecDaemon: daemon.rs, handle_client on one thread per connection
    dPc,                    \* per thread: "wait", or the handler it is in
    dEvent,                 \* per thread: the first token of the line
    dApp,                   \* per thread: the app name of on-focus-changed
    front_app,              \* DaemonState
    dLines,                 \* history: lines read from all connections
    shown_app,              \* the renderer: the label of its front_app item
    focusResult             \* history, per app: how the last update_front_app
                            \* for it ended

varsDaemon == <<dPc, dEvent, dApp, front_app, dLines, shown_app, focusResult>>

\* What the steps of each specification leave alone.
otherThanSnap == <<varsRefresh, varsMach, varsRender, varsMain, varsFormat, varsBatch, varsBuild, varsDaemon>>
otherThanRefresh == <<varsSnap, varsMach, varsRender, varsMain, varsFormat, varsBatch, varsBuild, varsDaemon>>
otherThanMach == <<varsSnap, varsRefresh, varsRender, varsMain, varsFormat, varsBatch, varsBuild, varsDaemon>>
otherThanRender == <<varsSnap, varsRefresh, varsMach, varsMain, varsFormat, varsBatch, varsBuild, varsDaemon>>
otherThanMain == <<varsSnap, varsRefresh, varsMach, varsRender, varsFormat, varsBatch, varsBuild, varsDaemon>>
otherThanFormat == <<varsSnap, varsRefresh, varsMach, varsRender, varsMain, varsBatch, varsBuild, varsDaemon>>
otherThanBatch == <<varsSnap, varsRefresh, varsMach, varsRender, varsMain, varsFormat, varsBuild, varsDaemon>>
otherThanBuild == <<varsSnap, varsRefresh, varsMach, varsRender, varsMain, varsFormat, varsBatch, varsDaemon>>
otherThanDaemon == <<varsSnap, varsRefresh, varsMach, varsRender, varsMain, varsFormat, varsBatch, varsBuild>>


(***************************************************************************)
(* aerospace::get_workspace_infos, its pure parts.                         *)
(***************************************************************************)
max_retries == 2

AnyFocused(ws) == \E i \in DOMAIN ws : ws[i].workspace_is_focused

\* The retry test without the branch for windows none of which is focused.
NeedsRetryOnlyDisappeared(rc, initial, ws) ==
    IF rc = 0 /\ initial > 0 /\ Len(ws) = 0 THEN TRUE
    ELSE FALSE

\* The needs_retry decision of the retry loop.
NeedsRetry(rc, initial, ws) ==
    IF rc = 0 /\ initial > 0 /\ Len(ws) = 0 THEN TRUE
    ELSE IF AnyFocused(ws) THEN FALSE
    ELSE IF Len(ws) # 0 THEN TRUE
    ELSE FALSE

\* The backoff that does not grow.
DelayMsFlat(rc) == 20

\* The backoff before retry number rc + 1.
DelayMs(rc) == 20 * (rc + 1)

\* One window folded into workspace_data (entry().and_modify().or_insert()).
GroupStep(data, w) ==
    IF w.workspace \in DOMAIN data
    THEN [data EXCEPT ![w.workspace] =
            [apps |-> Append(@.apps, w.app_name),
             is_focused |-> @.is_focused \/ w.workspace_is_focused,
             display_id |-> @.display_id]]
    ELSE data @@ (w.workspace :>
            [apps |-> <<w.app_name>>,
             is_focused |-> w.workspace_is_focused,
             display_id |-> w.display_id])

RECURSIVE GroupFrom(_, _, _)
GroupFrom(data, ws, i) ==
    IF i > Len(ws) THEN data ELSE GroupFrom(GroupStep(data, ws[i]), ws, i + 1)

EmptyMap == [x \in {} |-> 0]

\* Group windows by workspace.
GroupWindows(ws) == GroupFrom(EmptyMap, ws, 1)

HasFocused(data) == \E k \in DOMAIN data : data[k].is_focused

\* The insert that keeps an entry the workspace already has
\* (entry().or_insert()).
InsertFocusedKeep(data, focused) ==
    [k \in DOMAIN data \cup {focused.workspace} |->
        IF k \in DOMAIN data
        THEN data[k]
        ELSE [apps |-> <<>>, is_focused |-> TRUE, display_id |-> focused.display_id]]

\* The insert of an entry that is not marked as focused.
InsertFocusedUnflagged(data, focused) ==
    [k \in DOMAIN data \cup {focused.workspace} |->
        IF k = focused.workspace
        THEN [apps |-> <<>>, is_focused |-> FALSE, display_id |-> focused.display_id]
        ELSE data[k]]

\* workspace_data.insert(focused.workspace, (Vec::new(), true, display_id)).
InsertFocused(data, focused) ==
    [k \in DOMAIN data \cup {focused.workspace} |->
        IF k = focused.workspace
        THEN [apps |-> <<>>, is_focused |-> TRUE, display_id |-> focused.display_id]
        ELSE data[k]]

\* The fallback of get_workspace_infos when no grouped workspace is focused.
FocusFallback(data, answer) ==
    IF answer = None THEN data ELSE InsertFocused(data, answer[1])

\* sort() and dedup() of the app names: the apps that get one icon each.
SortedDedup(apps) == SelectSeq(AppOrder, LAMBDA a : a \in Range(apps))

\* The apps whose icons make up the icon string.
IconApps(apps, show_all) ==
    IF show_all THEN apps ELSE SortedDedup(apps)

\* Build workspace infos.
BuildInfos(data, show_all) ==
    [k \in DOMAIN data |->
        [id |-> k,
         apps |-> data[k].apps,
         icons |-> IconApps(data[k].apps, show_all),
         is_focused |-> data[k].is_focused,
         display_id |-> data[k].display_id]]

InitSnapVars ==
    /\ gPc = "start"
    /\ windows = <<>>
    /\ initial_window_count = 0
    /\ retry_count = 0
    /\ workspace_data = EmptyMap
    /\ result = EmptyMap
    /\ readLens = <<>>
    /\ delays = <<>>
    /\ focusAsked = FALSE
    /\ focusAnswer = None

(***************************************************************************)
(* SpecSnap: aerospace::get_workspace_infos, step by step.  Every read of  *)
(* the window manager returns any window list; a failed get_windows        *)
(* returns the empty list.                                                 *)
(***************************************************************************)

\* let mut windows = get_windows(); let initial_window_count = windows.len();
GwiFirstRead ==
    /\ UNCHANGED otherThanSnap
    /\ gPc = "start"
    /\ \E r \in WindowLists :
        /\ windows' = r
        /\ initial_window_count' = Len(r)
        /\ readLens' = Append(readLens, Len(r))
    /\ retry_count' = 0
    /\ gPc' = "loop"
    /\ UNCHANGED <<show_all_windows, workspace_data, result, delays, focusAsked, focusAnswer>>

\* while retry_count < max_retries { needs_retry ...; if !needs_retry { break; }
GwiCheck ==
    /\ UNCHANGED otherThanSnap
    /\ gPc = "loop"
    /\ gPc' = IF retry_count < max_retries
                 /\ NeedsRetry(retry_count, initial_window_count, windows)
              THEN "retry" ELSE "group"
    /\ UNCHANGED <<show_all_windows, windows, initial_window_count, retry_count,
                   workspace_data, result, readLens, delays, focusAsked, focusAnswer>>

\* sleep(delay_ms); windows = get_windows(); retry_count += 1;
GwiRetry ==
    /\ UNCHANGED otherThanSnap
    /\ gPc = "retry"
    /\ delays' = Append(delays, DelayMs(retry_count))
    /\ \E r \in WindowLists :
        /\ windows' = r
        /\ readLens' = Append(readLens, Len(r))
    /\ retry_count' = retry_count + 1
    /\ gPc' = "loop"
    /\ UNCHANGED <<show_all_windows, initial_window_count, workspace_data, result,
                   focusAsked, focusAnswer>>

\* Group windows by workspace; let has_focused = ...
GwiGroup ==
    /\ UNCHANGED otherThanSnap
    /\ gPc = "group"
    /\ workspace_data' = GroupWindows(windows)
    /\ gPc' = IF HasFocused(GroupWindows(windows)) THEN "build" ELSE "focus"
    /\ UNCHANGED <<show_all_windows, windows, initial_window_count, retry_count,
                   result, readLens, delays, focusAsked, focusAnswer>>

\* if !has_focused { if let Some(focused) = get_focused_workspace() { insert } }
GwiFocusQuery ==
    /\ UNCHANGED otherThanSnap
    /\ gPc = "focus"
    /\ \E a \in FocusAnswers :
        /\ focusAnswer' = a
        /\ focusAsked' = TRUE
        /\ workspace_data' = FocusFallback(workspace_data, a)
    /\ gPc' = "build"
    /\ UNCHANGED <<show_all_windows, windows, initial_window_count, retry_count,
                   result, readLens, delays>>

\* Build workspace infos; return result.
GwiBuild ==
    /\ UNCHANGED otherThanSnap
    /\ gPc = "build"
    /\ result' = BuildInfos(workspace_data, show_all_windows)
    /\ gPc' = "done"
    /\ UNCHANGED <<show_all_windows, windows, initial_window_count, retry_count,
                   workspace_data, readLens, delays, focusAsked, focusAnswer>>

(***************************************************************************)
(* The window manager as the reconciliation pass sees it: a state wm that  *)
(* changes on its own.  One call of get_workspace_infos reads one state    *)
(* (every get_windows of the call returns the same list), or fails in      *)
(* every query when the aerospace command cannot be run.                   *)
(***************************************************************************)
Win(a, ws, f) ==
    [app_name |-> a, workspace |-> ws, workspace_is_focused |-> f,
     display_id |-> MonitorOf(ws)]

Worlds == 1..4
Down == 0          \* the aerospace command cannot be run

WorldWindows(w) ==
    CASE w = 1 -> <<Win("AppX", "1", TRUE)>>
      [] w = 2 -> <<Win("AppX", "1", TRUE), Win("AppY", "2", FALSE)>>
      [] w = 3 -> <<>>
      [] w = 4 -> <<Win("AppY", "2", TRUE)>>

WorldFocus(w) ==
    IF w = 4 THEN [workspace |-> "2", display_id |-> MonitorOf("2")]
    ELSE [workspace |-> "1", display_id |-> MonitorOf("1")]

\* The retry loop of get_workspace_infos over the window lists that the
\* successive reads would return: the window list it ends with.
RECURSIVE RetryLoop(_, _, _, _)
RetryLoop(ws, initial, rc, reads) ==
    IF rc < max_retries /\ NeedsRetry(rc, initial, ws)
    THEN RetryLoop(reads[rc + 2], initial, rc + 1, reads)
    ELSE ws

\* get_workspace_infos(show_all) as one step: `reads` are the answers of the
\* successive get_windows calls, `answer` that of get_focused_workspace.
GetWorkspaceInfos(reads, answer, show_all) ==
    LET ws == RetryLoop(reads[1], Len(reads[1]), 0, reads)
        grouped == GroupWindows(ws)
        data == IF HasFocused(grouped) THEN grouped
                ELSE FocusFallback(grouped, answer)
    IN BuildInfos(data, show_all)

\* The snapshot of window manager state w.  When the aerospace command fails,
\* get_windows returns Vec::new() and get_focused_workspace returns None.
Snapshot(w, show_all) ==
    LET r == IF w # Down THEN WorldWindows(w) ELSE <<>>
    IN GetWorkspaceInfos(<<r, r, r>>,
                         IF w # Down THEN Some(WorldFocus(w)) ELSE None, show_all)

\* The snapshots of the states of the window manager.
Snapshots ==
    [w \in Worlds \cup {Down} |-> [show_all \in BOOLEAN |-> Snapshot(w, show_all)]]


(***************************************************************************)
(* handlers.rs: the reconciliation pass handle_workspace_refresh.          *)
(***************************************************************************)
DebounceMs == 100        \* Duration::from_millis(100)
SettleMs == 10           \* thread::sleep(Duration::from_millis(10))
BordersSleepMs == 40     \* sleep before the borders command
GradientSteps == 15      \* generate_gradient(start, end, 15)

Threads == {"t1", "t2"}
TickSteps == {50, 99}

\* Instant::duration_since: saturates to zero when `earlier` is later.
DurationSince(later, earlier) == IF later >= earlier THEN later - earlier ELSE 0

\* The gate with the window closed at its upper end: a notification exactly
\* DebounceMs after the last accepted one is dropped.
DebounceGateInclusive(last, t_now) ==
    IF last # None
    THEN IF DurationSince(t_now, last[1]) <= DebounceMs
         THEN [should_process |-> FALSE, last |-> last]
         ELSE [should_process |-> TRUE, last |-> Some(t_now)]
    ELSE [should_process |-> TRUE, last |-> Some(t_now)]

\* The gate that forgets to record the time of a later accepted change.
DebounceGateNoRecord(last, t_now) ==
    IF last # None
    THEN IF DurationSince(t_now, last[1]) < DebounceMs
         THEN [should_process |-> FALSE, last |-> last]
         ELSE [should_process |-> TRUE, last |-> last]
    ELSE [should_process |-> TRUE, last |-> Some(t_now)]

\* The gate that restarts the window at a dropped notification.
DebounceGateRecordDropped(last, t_now) ==
    IF last # None
    THEN IF DurationSince(t_now, last[1]) < DebounceMs
         THEN [should_process |-> FALSE, last |-> Some(t_now)]
         ELSE [should_process |-> TRUE, last |-> Some(t_now)]
    ELSE [should_process |-> TRUE, last |-> Some(t_now)]

\* The debounce gate, the critical section of lines 431-445: the decision
\* and the new last_workspace_change.
DebounceGate(last, t_now) ==
    IF last # None
    THEN IF DurationSince(t_now, last[1]) < DebounceMs
         THEN [should_process |-> FALSE, last |-> last]
         ELSE [should_process |-> TRUE, last |-> Some(t_now)]
    ELSE [should_process |-> TRUE, last |-> Some(t_now)]

\* Manual display mapping: swap display 2 with display 3.
SwapDisplay(d) == IF d = 2 THEN 3 ELSE IF d = 3 THEN 2 ELSE d

SwapDisplays(infos_) ==
    [k \in DOMAIN infos_ |-> [infos_[k] EXCEPT !.display_id = SwapDisplay(@)]]

\* all_displays: the display ids of the first snapshot of the pass.
AllDisplays(temp_infos) == { temp_infos[k].display_id : k \in DOMAIN temp_infos }

\* format_workspace_label(ws_id, has_icon)
format_workspace_label(ws_id, has_icon) ==
    IF has_icon THEN <<"[", ws_id, "]">> ELSE <<"glyph", " ", "[", ws_id, "]">>

\* The directive that clears a workspace on a display (lines 500-506).
ClearDirective(ws_id, display_id) ==
    [item |-> ws_id, props |-> [drawing |-> "off", display |-> display_id]]

\* The settings of one workspace in the render loop (lines 516-555).
WorkspaceSettings(ws_id, info, position) ==
    LET has_apps == Len(info.apps) # 0
        is_focused == info.is_focused
        base == [label |-> format_workspace_label(ws_id, has_apps),
                 label_color |-> IF is_focused THEN "workspace_focused_label_color"
                                 ELSE "workspace_unfocused_label_color",
                 icon |-> IF has_apps THEN info.icons ELSE <<>>,
                 icon_color |-> IF is_focused THEN "workspace_focused_icon_color"
                                ELSE "workspace_unfocused_icon_color",
                 icon_drawing |-> IF has_apps THEN "on" ELSE "off",
                 drawing |-> "on",
                 background_drawing |-> IF is_focused THEN "on" ELSE "off",
                 display |-> info.display_id]
    IN IF is_focused
       THEN base @@ [background_color |-> position % GradientSteps]
       ELSE base

SetDirective(ws_id, info, position) ==
    [item |-> ws_id, props |-> WorkspaceSettings(ws_id, info, position)]

\* The renderer applies the directives of a delivered batch in order: an
\* item is drawn when its last drawing property is on.
RECURSIVE DeliverFrom(_, _, _)
DeliverFrom(sh, batch, i) ==
    IF i > Len(batch) THEN sh
    ELSE DeliverFrom(IF batch[i].props.drawing = "on"
                     THEN sh \cup {batch[i].item}
                     ELSE sh \ {batch[i].item}, batch, i + 1)

Deliver(sh, batch) == DeliverFrom(sh, batch, 1)

\* sorted_ws_ids: the ids of the snapshot in sorted order.
SortedWsIds(infos_) == SelectSeq(WsOrder, LAMBDA k : k \in DOMAIN infos_)

\* A map without key k.
Without(m, k) == [x \in DOMAIN m \ {k} |-> m[x]]

\* The orders in which a HashSet can be iterated.
Perms(S) == { q \in [1..Cardinality(S) -> S] : Range(q) = S }

\* workspaces_to_clear = previous_workspaces.difference(&current_workspaces)
WorkspacesToClear(previous, current) == previous \ current

\* The batches of a pass with the set directive of every workspace in the
\* batch of every display.
BuildBatchesSetEverywhere(order, displays, infos_) ==
    LET sorted == SortedWsIds(infos_)
        clears(d) == IF d \in displays
                     THEN [i \in 1..Len(order) |-> ClearDirective(order[i], d)]
                     ELSE <<>>
        sets == [j \in 1..Len(sorted) |->
                    SetDirective(sorted[j], infos_[sorted[j]], j - 1)]
        keys == (IF Len(order) = 0 THEN {} ELSE displays)
                \cup { infos_[k].display_id : k \in DOMAIN infos_ }
    IN [d \in keys |-> clears(d) \o sets]

\* The batches of a pass (lines 495-563): for every workspace to clear, in
\* iteration order `order`, a clear directive in the batch of every display of
\* all_displays; then the set directive of every workspace of the snapshot,
\* in sorted order, in the batch of its display.
BuildBatches(order, displays, infos_) ==
    LET sorted == SortedWsIds(infos_)
        clears(d) == IF d \in displays
                     THEN [i \in 1..Len(order) |-> ClearDirective(order[i], d)]
                     ELSE <<>>
        idx(d) == SelectSeq([i \in 1..Len(sorted) |-> i],
                            LAMBDA i : infos_[sorted[i]].display_id = d)
        sets(d) == [j \in 1..Len(idx(d)) |->
                      SetDirective(sorted[idx(d)[j]], infos_[sorted[idx(d)[j]]],
                                   idx(d)[j] - 1)]
        keys == (IF Len(order) = 0 THEN {} ELSE displays)
                \cup { infos_[k].display_id : k \in DOMAIN infos_ }
    IN [d \in keys |-> clears(d) \o sets(d)]

InitRefreshVars ==
    /\ clock = 0
    /\ shown = {}
    /\ last_workspace_change = None
    /\ previous_workspaces = {}
    /\ pc = [t \in Threads |-> "idle"]
    /\ now = [t \in Threads |-> 0]
    /\ all_displays = [t \in Threads |-> {}]
    /\ infos = [t \in Threads |-> EmptyMap]
    /\ prev = [t \in Threads |-> {}]
    /\ batches = [t \in Threads |-> EmptyMap]
    /\ readOk = [t \in Threads |-> TRUE]
    /\ gateLog = <<>>


(***************************************************************************)
(* Spec: the steps of handle_workspace_refresh on thread t.  The two       *)
(* critical sections under the state mutex hold no call and are one step   *)
(* each.  A local of the handler is reset once the code no longer reads it.*)
(***************************************************************************)

\* A notification reaches the handler: let now = Instant::now();
Notify(t) ==
    /\ UNCHANGED otherThanRefresh
    /\ pc[t] = "idle"
    /\ Len(gateLog) + Cardinality({u \in Threads : pc[u] = "gate"}) < MaxEvents
    /\ now' = [now EXCEPT ![t] = clock]
    /\ pc' = [pc EXCEPT ![t] = "gate"]
    /\ UNCHANGED <<clock, wm, shown, last_workspace_change,
                   previous_workspaces, all_displays, infos, prev, batches, readOk, gateLog>>

\* The debounce gate under state.lock(); a debounced invocation returns.
Gate(t) ==
    /\ UNCHANGED otherThanRefresh
    /\ pc[t] = "gate"
    /\ LET g == DebounceGate(last_workspace_change, now[t])
       IN /\ last_workspace_change' = g.last
          /\ gateLog' = Append(gateLog, [ts |-> now[t], accepted |-> g.should_process])
          /\ pc' = [pc EXCEPT ![t] = IF g.should_process THEN "settle" ELSE "idle"]
          /\ now' = [now EXCEPT ![t] = IF g.should_process THEN @ ELSE 0]
    /\ UNCHANGED <<clock, wm, shown, previous_workspaces, all_displays,
                   infos, prev, batches, readOk>>

\* thread::sleep(Duration::from_millis(10)) has returned.
Settle(t) ==
    /\ UNCHANGED otherThanRefresh
    /\ pc[t] = "settle"
    /\ clock >= now[t] + SettleMs
    /\ pc' = [pc EXCEPT ![t] = "probe"]
    /\ UNCHANGED <<clock, wm, shown, last_workspace_change,
                   previous_workspaces, now, all_displays, infos, prev, batches, readOk, gateLog>>

\* let all_displays = get_workspace_infos(false) ... display_id ... collect()
Probe(t) ==
    /\ UNCHANGED otherThanRefresh
    /\ pc[t] = "probe"
    /\ all_displays' = [all_displays EXCEPT ![t] = AllDisplays(Snapshots[wm][FALSE])]
    /\ pc' = [pc EXCEPT ![t] = "read"]
    /\ UNCHANGED <<clock, wm, shown, last_workspace_change,
                   previous_workspaces, now, infos, prev, batches, readOk,
                   gateLog>>

\* let mut infos = get_workspace_infos(!is_single_monitor); swap displays 2, 3.
Read(t) ==
    /\ UNCHANGED otherThanRefresh
    /\ pc[t] = "read"
    /\ LET is_single_monitor == Cardinality(all_displays[t]) = 1
       IN infos' = [infos EXCEPT ![t] =
                        SwapDisplays(Snapshots[wm][~is_single_monitor])]
    /\ readOk' = [readOk EXCEPT ![t] = wm # Down]
    /\ pc' = [pc EXCEPT ![t] = "swap"]
    /\ UNCHANGED <<clock, wm, shown, last_workspace_change,
                   previous_workspaces, now, all_displays, prev, batches,
                   gateLog>>

\* Under state.lock(): prev = s.previous_workspaces.clone();
\* s.previous_workspaces = current_workspaces.clone();
Swap(t) ==
    /\ UNCHANGED otherThanRefresh
    /\ pc[t] = "swap"
    /\ prev' = [prev EXCEPT ![t] = previous_workspaces]
    /\ previous_workspaces' = DOMAIN infos[t]
    /\ readOk' = [readOk EXCEPT ![t] = TRUE]
    /\ pc' = [pc EXCEPT ![t] = "render"]
    /\ UNCHANGED <<clock, wm, shown, last_workspace_change, now,
                   all_displays, infos, batches, gateLog>>

\* Build the batch of every display.
Render(t) ==
    /\ UNCHANGED otherThanRefresh
    /\ pc[t] = "render"
    /\ \E order \in Perms(WorkspacesToClear(prev[t], DOMAIN infos[t])) :
        batches' = [batches EXCEPT ![t] =
                       BuildBatches(order, all_displays[t], infos[t])]
    /\ all_displays' = [all_displays EXCEPT ![t] = {}]
    /\ infos' = [infos EXCEPT ![t] = EmptyMap]
    /\ prev' = [prev EXCEPT ![t] = {}]
    /\ pc' = [pc EXCEPT ![t] = "execute"]
    /\ UNCHANGED <<clock, wm, shown, last_workspace_change,
                   previous_workspaces, now, readOk, gateLog>>

\* The loop that returns at the first failed execute: the batches that are
\* left are dropped.
ExecuteAbortOnError(t) ==
    /\ UNCHANGED otherThanRefresh
    /\ pc[t] = "execute"
    /\ \E d \in DOMAIN batches[t], ok \in BOOLEAN :
        /\ batches' = [batches EXCEPT ![t] = IF ok THEN Without(@, d) ELSE EmptyMap]
        /\ shown' = IF ok THEN Deliver(shown, batches[t][d]) ELSE shown
    /\ UNCHANGED <<clock, wm, last_workspace_change, previous_workspaces, pc,
                   now, all_displays, infos, prev, readOk, gateLog>>

\* for (display_id, batch) in batches { batch.execute() }: one batch, which
\* is delivered to the renderer or fails; a failure is logged.
Execute(t) ==
    /\ UNCHANGED otherThanRefresh
    /\ pc[t] = "execute"
    /\ \E d \in DOMAIN batches[t], ok \in BOOLEAN :
        /\ batches' = [batches EXCEPT ![t] = Without(@, d)]
        /\ shown' = IF ok THEN Deliver(shown, batches[t][d]) ELSE shown
    /\ UNCHANGED <<clock, wm, last_workspace_change, previous_workspaces, pc,
                   now, all_displays, infos, prev, readOk, gateLog>>

\* sleep(40 ms); the borders command; return.
Borders(t) ==
    /\ UNCHANGED otherThanRefresh
    /\ pc[t] = "execute"
    /\ DOMAIN batches[t] = {}
    /\ clock >= now[t] + SettleMs + BordersSleepMs
    /\ pc' = [pc EXCEPT ![t] = "idle"]
    /\ now' = [now EXCEPT ![t] = 0]
    /\ UNCHANGED <<clock, wm, shown, last_workspace_change,
                   previous_workspaces, all_displays, infos, prev, batches,
                   readOk, gateLog>>

\* Time passes, by one debounce window.
Tick ==
    /\ UNCHANGED otherThanRefresh
    /\ clock + DebounceMs <= MaxTime
    /\ clock' = clock + DebounceMs
    /\ UNCHANGED <<wm, shown, last_workspace_change, previous_workspaces, pc,
                   now, all_displays, infos, prev, batches, readOk,
                   gateLog>>

\* Time passes, in steps that meet both sides of the debounce window.
TickFine ==
    /\ UNCHANGED otherThanRefresh
    /\ \E d \in TickSteps :
        /\ clock + d <= MaxTime
        /\ clock' = clock + d
    /\ UNCHANGED <<wm, shown, last_workspace_change, previous_workspaces, pc,
                   now, all_displays, infos, prev, batches, readOk,
                   gateLog>>

\* The window manager changes state.
WmChange ==
    /\ UNCHANGED otherThanRefresh
    /\ \E w \in Worlds \ {wm} : wm' = w
    /\ UNCHANGED <<clock, shown, last_workspace_change, previous_workspaces,
                   pc, now, all_displays, infos, prev, batches, readOk,
                   gateLog>>

\* The aerospace command stops answering.
WmDown ==
    /\ UNCHANGED otherThanRefresh
    /\ wm # Down
    /\ wm' = Down
    /\ UNCHANGED <<clock, shown, last_workspace_change, previous_workspaces,
                   pc, now, all_displays, infos, prev, batches, readOk,
                   gateLog>>

(***************************************************************************)
(* mach_client.rs: sketchybar(command) and the cached port.                *)
(***************************************************************************)
MaxCalls == 4        \* calls of sketchybar() in one behaviour
MaxPort == 2         \* the ports sketchybar registers under, one per start

Callers == {"c1", "c2"}

InitMachVars ==
    /\ MACH_PORT = None
    /\ cPc = [c \in Callers |-> "idle"]
    /\ cPort = [c \in Callers |-> 0]
    /\ outcome = [c \in Callers |-> "none"]
    /\ lookups = 0
    /\ calls = 0

\* get_sketchybar_port(): bootstrap_look_up of the service name.
get_sketchybar_port == IF servicePort = 0 THEN None ELSE Some(servicePort)

\* The results of send_message(port, ..): the response port cannot be
\* allocated; mach_msg(MACH_SEND_MSG) fails, as it does for a port that is no
\* longer sketchybar's; the receive times out (Ok(None)), fails otherwise, or
\* returns a reply.
SendResults(port) ==
    IF port # servicePort THEN {"alloc_error", "send_error"}
    ELSE {"alloc_error", "send_error", "timeout", "receive_error", "reply"}

\* What sketchybar() returns for a result of send_message.
IsOk(r) == r \in {"timeout", "reply"}

\* reset_port(): *cached_port = None.  No code of the repository calls it.
reset_port == None

\* The cache emptied by every delivery that got no reply.
PortAfterSendResetOnNoReply(cached, r) == IF r = "reply" THEN cached ELSE None

\* What a finished send_message leaves in MACH_PORT.
PortAfterSend(cached, r) == cached

\* sketchybar() that looks the port up on every call.
SketchybarLookupUncached(c) ==
    /\ UNCHANGED otherThanMach
    /\ cPc[c] = "idle"
    /\ calls < MaxCalls
    /\ calls' = calls + 1
    /\ lookups' = lookups + 1
    /\ IF get_sketchybar_port = None
       THEN /\ outcome' = [outcome EXCEPT ![c] = "lookup_error"]
            /\ UNCHANGED <<MACH_PORT, cPort, cPc>>
       ELSE /\ MACH_PORT' = get_sketchybar_port
            /\ cPort' = [cPort EXCEPT ![c] = get_sketchybar_port[1]]
            /\ cPc' = [cPc EXCEPT ![c] = "send"]
            /\ outcome' = [outcome EXCEPT ![c] = "none"]
    /\ UNCHANGED servicePort

\* sketchybar(): the block under MACH_PORT.lock(): the cached port, or the
\* looked-up port, which is cached; a failed lookup returns Err.
SketchybarLookup(c) ==
    /\ UNCHANGED otherThanMach
    /\ cPc[c] = "idle"
    /\ calls < MaxCalls
    /\ calls' = calls + 1
    /\ IF MACH_PORT # None
       THEN /\ cPort' = [cPort EXCEPT ![c] = MACH_PORT[1]]
            /\ cPc' = [cPc EXCEPT ![c] = "send"]
            /\ outcome' = [outcome EXCEPT ![c] = "none"]
            /\ UNCHANGED <<MACH_PORT, lookups>>
       ELSE /\ lookups' = lookups + 1
            /\ IF get_sketchybar_port = None
               THEN /\ outcome' = [outcome EXCEPT ![c] = "lookup_error"]
                    /\ UNCHANGED <<MACH_PORT, cPort, cPc>>
               ELSE /\ MACH_PORT' = get_sketchybar_port
                    /\ cPort' = [cPort EXCEPT ![c] = get_sketchybar_port[1]]
                    /\ cPc' = [cPc EXCEPT ![c] = "send"]
                    /\ outcome' = [outcome EXCEPT ![c] = "none"]
    /\ UNCHANGED servicePort

\* send_message(port, &formatted) and the return of sketchybar().
SketchybarSend(c) ==
    /\ UNCHANGED otherThanMach
    /\ cPc[c] = "send"
    /\ \E r \in SendResults(cPort[c]) :
        /\ outcome' = [outcome EXCEPT ![c] = r]
        /\ MACH_PORT' = PortAfterSend(MACH_PORT, r)
    /\ cPc' = [cPc EXCEPT ![c] = "idle"]
    /\ cPort' = [cPort EXCEPT ![c] = 0]
    /\ UNCHANGED <<servicePort, lookups, calls>>

\* sketchybar exits.
ServiceStop ==
    /\ UNCHANGED otherThanMach
    /\ servicePort # 0
    /\ servicePort < MaxPort
    /\ servicePort' = 0
    /\ UNCHANGED <<MACH_PORT, cPc, cPort, outcome, lookups, calls>>

\* sketchybar starts and registers a new port.
ServiceStart ==
    /\ UNCHANGED otherThanMach
    /\ servicePort = 0
    /\ \E p \in 1..MaxPort :
        /\ \A c \in Callers : cPort[c] < p
        /\ IF MACH_PORT = None THEN TRUE ELSE MACH_PORT[1] < p
        /\ servicePort' = p
    /\ UNCHANGED <<MACH_PORT, cPc, cPort, outcome, lookups, calls>>

(***************************************************************************)
(* The settings of one workspace: the render loop of handlers.rs           *)
(* (WorkspaceSettings above) and that of main.rs.                          *)
(***************************************************************************)
\* main.rs, lines 219-225: the background colour rotates with the index.
MainBgColor(i) ==
    CASE i % 3 = 1 -> "0xff83a598"
      [] i % 3 = 2 -> "0xffd3869b"
      [] i % 3 = 0 -> "0xff8ec07c"

\* main.rs, lines 234-288 (and 300-354 for the fallback display).
MainSettings(i, has_apps, is_focused, icons, display_id, is_single_monitor) ==
    IF has_apps /\ is_focused
    THEN [label |-> <<ToString(i)>>, label_color |-> "0xff1d2021", icon |-> icons,
          icon_color |-> "0xff1d2021", icon_drawing |-> "on", drawing |-> "on",
          background_drawing |-> "on", background_color |-> MainBgColor(i),
          display |-> display_id]
    ELSE IF has_apps
    THEN [label |-> <<ToString(i)>>, label_color |-> "0xffffffff",
          icon_color |-> "0xffffffff", icon |-> icons, icon_drawing |-> "on",
          drawing |-> "on", background_drawing |-> "off", display |-> display_id]
    ELSE IF is_focused
    THEN [label |-> <<"glyph", " ", ToString(i)>>, label_color |-> "0xff1d2021",
          icon_color |-> "0xff1d2021", drawing |-> "on", icon_drawing |-> "off",
          background_drawing |-> "on", background_color |-> MainBgColor(i),
          display |-> display_id]
    ELSE IF is_single_monitor
    THEN [drawing |-> "off", display |-> display_id]
    ELSE [label |-> <<"glyph", " ", ToString(i)>>, label_color |-> "0xffffffff",
          icon_color |-> "0xffffffff", drawing |-> "on", icon_drawing |-> "off",
          background_drawing |-> "off", display |-> display_id]

AppLists == {<<>>, <<"AppX">>, <<"AppX", "AppX">>, <<"AppY", "AppX">>}

InitRenderVars ==
    /\ rI = 1
    /\ rInfo = [id |-> "1", apps |-> <<>>, icons |-> <<>>, is_focused |-> FALSE,
                display_id |-> 1]
    /\ rSingle = TRUE
    /\ rPosition = 0
    /\ rOut = None
    /\ rMainOut = None

\* The render loop of handlers.rs reaches the workspace.
RenderHandlers ==
    /\ UNCHANGED otherThanRender
    /\ rOut = None
    /\ rOut' = Some(WorkspaceSettings(rInfo.id, rInfo, rPosition))
    /\ UNCHANGED <<rI, rInfo, rSingle, rPosition, rMainOut>>

\* The render loop of main.rs reaches the workspace.
RenderMain ==
    /\ UNCHANGED otherThanRender
    /\ rMainOut = None
    /\ rMainOut' = Some(MainSettings(rI, Len(rInfo.apps) # 0, rInfo.is_focused,
                                     rInfo.icons, rInfo.display_id, rSingle))
    /\ UNCHANGED <<rI, rInfo, rSingle, rPosition, rOut>>

(***************************************************************************)
(* monitor_map.rs: MonitorMapper, and main.rs: handle_workspace_refresh.   *)
(***************************************************************************)
MaxMapTime == 301        \* the clock of SpecMain stops here
CacheTtlSecs == 300      \* Duration::from_secs(300)
NumMainWs == 9           \* for i in 1..=9

\* The display arrangements: what swift (NSScreen id -> name), sketchybar
\* (display id -> NSScreen id) and aerospace (monitor id -> name) answer.
\* 1: the built-in display; 2: built-in and external, numbered differently by
\* aerospace; 3: two externals of the same name.  0: the commands fail and
\* every map is empty.
Arrangements == 0..3

NsscreenMap(a) ==
    CASE a = 0 -> EmptyMap
      [] a = 1 -> (1 :> "Built-in")
      [] a = 2 -> (1 :> "Built-in" @@ 2 :> "Dell")
      [] a = 3 -> (1 :> "Dell" @@ 2 :> "Dell")

SketchybarMap(a) ==
    CASE a = 0 -> EmptyMap
      [] a = 1 -> (1 :> 1)
      [] a = 2 -> (1 :> 1 @@ 2 :> 2)
      [] a = 3 -> (1 :> 1 @@ 2 :> 2)

AerospaceMap(a) ==
    CASE a = 0 -> EmptyMap
      [] a = 1 -> (1 :> "Built-in")
      [] a = 2 -> (1 :> "Dell" @@ 2 :> "Built-in")
      [] a = 3 -> (1 :> "Dell" @@ 2 :> "Dell")

\* is_expired that counts an entry of exactly the time to live as expired.
IsExpiredAtTtl(entry, t_now) == t_now - entry.created_at >= CacheTtlSecs

\* CacheEntry::is_expired: self.created_at.elapsed() > ttl.
is_expired(entry, t_now) == t_now - entry.created_at > CacheTtlSecs

\* build_mappings that joins the maps on the ids and not on the names.
BuildMappingsById(nsscreen_map, sketchybar_map, aerospace_map, aero_order) ==
    [sb_id \in {d \in DOMAIN sketchybar_map :
                    sketchybar_map[d] \in DOMAIN aerospace_map}
        |-> sketchybar_map[sb_id]]

\* build_mappings that keeps a display without a monitor, with monitor 1.
BuildMappingsDefaultOne(nsscreen_map, sketchybar_map, aerospace_map, aero_order) ==
    LET matches(sb_id) ==
            IF sketchybar_map[sb_id] \in DOMAIN nsscreen_map
            THEN SelectSeq(aero_order,
                    LAMBDA a : aerospace_map[a] = nsscreen_map[sketchybar_map[sb_id]])
            ELSE <<>>
    IN [sb_id \in DOMAIN sketchybar_map |->
            IF Len(matches(sb_id)) > 0 THEN matches(sb_id)[1] ELSE 1]

\* build_mappings: sketchybar display id -> aerospace monitor id; aero_order
\* is the order in which the aerospace map is iterated.
build_mappings(nsscreen_map, sketchybar_map, aerospace_map, aero_order) ==
    LET matches(sb_id) ==
            IF sketchybar_map[sb_id] \in DOMAIN nsscreen_map
            THEN SelectSeq(aero_order,
                    LAMBDA a : aerospace_map[a] = nsscreen_map[sketchybar_map[sb_id]])
            ELSE <<>>
        mapped == {sb_id \in DOMAIN sketchybar_map : Len(matches(sb_id)) > 0}
    IN [sb_id \in mapped |-> matches(sb_id)[1]]

\* The answers of the three queries of one call of build_mappings.
OsDisplayIds == {1, 2}
RendererDisplayIds == {2, 7}
MonitorIds == {1, 3}
DisplayNames == {"Built-in", "Dell"}

PartialMaps(D, R) == UNION {[S -> R] : S \in SUBSET D}

BuildInputs ==
    [nsscreen_map : PartialMaps(OsDisplayIds, DisplayNames),
     sketchybar_map : PartialMaps(RendererDisplayIds, OsDisplayIds),
     aerospace_map : PartialMaps(MonitorIds, DisplayNames)]

BuildExample ==
    [nsscreen_map |-> (1 :> "Built-in"),
     sketchybar_map |-> (7 :> 1),
     aerospace_map |-> (3 :> "Built-in")]

InitBuildVars == bmOut = None

\* let mappings = self.build_mappings();
BuildMappings ==
    /\ UNCHANGED otherThanBuild
    /\ bmOut = None
    /\ \E aero_order \in Perms(DOMAIN bmIn.aerospace_map) :
        bmOut' = Some(build_mappings(bmIn.nsscreen_map, bmIn.sketchybar_map,
                                     bmIn.aerospace_map, aero_order))
    /\ UNCHANGED bmIn

\* The render loop of main.rs from workspace i on: the directive of workspace
\* i goes to the first display, in iteration order `order`, that maps to the
\* monitor of the workspace, and to display 1 when there is none.
RECURSIVE MainRenderFrom(_, _, _, _, _, _)
MainRenderFrom(bs, i, order, mappings, infos_, is_single_monitor) ==
    IF i > NumMainWs THEN bs
    ELSE LET ws_id == ToString(i)
             known == ws_id \in DOMAIN infos_
             has_apps == IF known THEN Len(infos_[ws_id].apps) # 0 ELSE FALSE
             is_focused == IF known THEN infos_[ws_id].is_focused ELSE FALSE
             icons == IF known THEN infos_[ws_id].icons ELSE <<>>
             workspace_monitor == IF known THEN infos_[ws_id].display_id ELSE 1
             hits == SelectSeq(order, LAMBDA d : mappings[d] = workspace_monitor)
             display == IF Len(hits) > 0 THEN hits[1] ELSE 1
             dir == [item |-> ws_id,
                     props |-> MainSettings(i, has_apps, is_focused, icons,
                                            display, is_single_monitor)]
             old == IF display \in DOMAIN bs THEN bs[display] ELSE <<>>
         IN MainRenderFrom([d \in DOMAIN bs \cup {display} |->
                               IF d = display THEN Append(old, dir) ELSE bs[d]],
                           i + 1, order, mappings, infos_, is_single_monitor)

\* The window manager states a pass of main.rs reads: windows on two
\* monitors, no window at all, and the failing command.
MainWorlds == {2, 3, Down}

InitMainVars ==
    /\ stateLock = "free"
    /\ mPc = [t \in Threads |-> "idle"]
    /\ mCache = None
    /\ mTime = 0
    /\ mMappings = [t \in Threads |-> EmptyMap]
    /\ mInfos = [t \in Threads |-> EmptyMap]
    /\ mBatches = [t \in Threads |-> EmptyMap]
    /\ mShown = {}
    /\ displayChanged = FALSE

\* handle_client: the messages that call handle_workspace_refresh.
RefreshEvents ==
    {"on-workspace-changed", "on-display-configuration-changed", "on-system-wake"}

\* handle_client dispatches a message to handle_workspace_refresh.
MainNotify(t) ==
    /\ UNCHANGED otherThanMain
    /\ mPc[t] = "idle"
    /\ \E ev \in RefreshEvents :
        displayChanged' =
            (displayChanged \/ ev = "on-display-configuration-changed")
    /\ mPc' = [mPc EXCEPT ![t] = "sleep"]
    /\ UNCHANGED <<stateLock, mCache, mTime, screens, mMappings, mInfos,
                   mBatches, mShown>>

\* thread::sleep(Duration::from_millis(10));
MainSleep(t) ==
    /\ UNCHANGED otherThanMain
    /\ UNCHANGED displayChanged
    /\ mPc[t] = "sleep"
    /\ mPc' = [mPc EXCEPT ![t] = "lock"]
    /\ UNCHANGED <<stateLock, mCache, mTime, screens, mMappings, mInfos,
                   mBatches, mShown>>

\* if let Ok(s) = state.lock()
MainLock(t) ==
    /\ UNCHANGED otherThanMain
    /\ UNCHANGED displayChanged
    /\ mPc[t] = "lock"
    /\ stateLock = "free"
    /\ stateLock' = t
    /\ mPc' = [mPc EXCEPT ![t] = "check"]
    /\ UNCHANGED <<mCache, mTime, screens, mMappings, mInfos, mBatches, mShown>>

\* get_mappings, the check of the cache: a live entry is returned, and the
\* guard of the state is dropped; otherwise the mappings are rebuilt.
MainCacheCheck(t) ==
    /\ UNCHANGED otherThanMain
    /\ UNCHANGED displayChanged
    /\ mPc[t] = "check"
    /\ IF mCache # None /\ ~is_expired(mCache[1], mTime)
       THEN /\ mMappings' = [mMappings EXCEPT ![t] = mCache[1].mappings]
            /\ stateLock' = "free"
            /\ mPc' = [mPc EXCEPT ![t] = "read"]
       ELSE /\ mPc' = [mPc EXCEPT ![t] = "build"]
            /\ UNCHANGED <<mMappings, stateLock>>
    /\ UNCHANGED <<mCache, mTime, screens, mInfos, mBatches, mShown>>

\* build_mappings: the swift, sketchybar and aerospace commands run.
MainBuild(t) ==
    /\ UNCHANGED otherThanMain
    /\ UNCHANGED displayChanged
    /\ mPc[t] = "build"
    /\ \E aero_order \in Perms(DOMAIN AerospaceMap(screens)) :
        mMappings' = [mMappings EXCEPT ![t] =
                         build_mappings(NsscreenMap(screens), SketchybarMap(screens),
                                        AerospaceMap(screens), aero_order)]
    /\ mPc' = [mPc EXCEPT ![t] = "store"]
    /\ UNCHANGED <<stateLock, mCache, mTime, screens, mInfos, mBatches, mShown>>

\* get_mappings, the update of the cache; the guard of the state is dropped.
MainStore(t) ==
    /\ UNCHANGED otherThanMain
    /\ mPc[t] = "store"
    /\ mCache' = Some([mappings |-> mMappings[t], created_at |-> mTime])
    /\ displayChanged' = FALSE
    /\ stateLock' = "free"
    /\ mPc' = [mPc EXCEPT ![t] = "read"]
    /\ UNCHANGED <<mTime, screens, mMappings, mInfos, mBatches, mShown>>

\* let infos = aerospace::get_workspace_infos();
MainRead(t) ==
    /\ UNCHANGED otherThanMain
    /\ UNCHANGED displayChanged
    /\ mPc[t] = "read"
    /\ \E w \in MainWorlds :
        mInfos' = [mInfos EXCEPT ![t] = Snapshot(w, FALSE)]
    /\ mPc' = [mPc EXCEPT ![t] = "render"]
    /\ UNCHANGED <<stateLock, mCache, mTime, screens, mMappings, mBatches, mShown>>

\* for i in 1..=9 { ... }
MainRender(t) ==
    /\ UNCHANGED otherThanMain
    /\ UNCHANGED displayChanged
    /\ mPc[t] = "render"
    /\ \E order \in Perms(DOMAIN mMappings[t]) :
        mBatches' = [mBatches EXCEPT ![t] =
                        MainRenderFrom(EmptyMap, 1, order, mMappings[t], mInfos[t],
                                       Cardinality(DOMAIN mMappings[t]) = 1)]
    /\ mMappings' = [mMappings EXCEPT ![t] = EmptyMap]
    /\ mInfos' = [mInfos EXCEPT ![t] = EmptyMap]
    /\ mPc' = [mPc EXCEPT ![t] = "execute"]
    /\ UNCHANGED <<stateLock, mCache, mTime, screens, mShown>>

\* for (display_id, batch) in batches { batch.execute() }: one batch.
MainExecute(t) ==
    /\ UNCHANGED otherThanMain
    /\ UNCHANGED displayChanged
    /\ mPc[t] = "execute"
    /\ \E d \in DOMAIN mBatches[t], ok \in BOOLEAN :
        /\ mBatches' = [mBatches EXCEPT ![t] = Without(@, d)]
        /\ mShown' = IF ok THEN Deliver(mShown, mBatches[t][d]) ELSE mShown
    /\ UNCHANGED <<stateLock, mPc, mCache, mTime, screens, mMappings, mInfos>>

\* The handler returns.
MainReturn(t) ==
    /\ UNCHANGED otherThanMain
    /\ UNCHANGED displayChanged
    /\ mPc[t] = "execute"
    /\ DOMAIN mBatches[t] = {}
    /\ mPc' = [mPc EXCEPT ![t] = "idle"]
    /\ UNCHANGED <<stateLock, mCache, mTime, screens, mMappings, mInfos,
                   mBatches, mShown>>

\* Time passes: the time to live of the cache, or one second more.
MainTick ==
    /\ UNCHANGED otherThanMain
    /\ UNCHANGED displayChanged
    /\ \E d \in {CacheTtlSecs, CacheTtlSecs + 1} :
        /\ mTime + d <= MaxMapTime
        /\ mTime' = mTime + d
    /\ UNCHANGED <<stateLock, mPc, mCache, screens, mMappings, mInfos,
                   mBatches, mShown>>

\* A display is plugged in or removed, or the commands start to fail.
ScreensChange ==
    /\ UNCHANGED otherThanMain
    /\ UNCHANGED displayChanged
    /\ \E a \in Arrangements \ {screens} : screens' = a
    /\ UNCHANGED <<stateLock, mPc, mCache, mTime, mMappings, mInfos, mBatches,
                   mShown>>

\* A thread calls get_mappings on the shared MonitorMapper.
MapperCall(t) ==
    /\ UNCHANGED otherThanMain
    /\ UNCHANGED displayChanged
    /\ mPc[t] = "idle"
    /\ mPc' = [mPc EXCEPT ![t] = "check"]
    /\ UNCHANGED <<stateLock, mCache, mTime, screens, mMappings, mInfos,
                   mBatches, mShown>>

\* get_mappings returns the mappings to its caller.
MapperReturn(t) ==
    /\ UNCHANGED otherThanMain
    /\ UNCHANGED displayChanged
    /\ mPc[t] = "read"
    /\ mPc' = [mPc EXCEPT ![t] = "idle"]
    /\ mMappings' = [mMappings EXCEPT ![t] = EmptyMap]
    /\ UNCHANGED <<stateLock, mCache, mTime, screens, mInfos, mBatches, mShown>>

(***************************************************************************)
(* mach_client.rs: format_message.  A string is a sequence of one-character *)
(* strings; the byte 0 is written NUL.                                     *)
(***************************************************************************)
MaxMsgLen == 4       \* longest command string drawn from MsgChars

NUL == "NUL"
DQ == "\""
SQ == "'"
SP == " "
TAB == "\t"
NoQuote == ""            \* let mut quote = 0u8

\* The characters of the command strings: a letter, the space, the two
\* quote characters and a whitespace character other than the space.
MsgChars == {"a", SP, DQ, SQ, TAB}

Msgs == UNION {[1..n -> MsgChars] : n \in 0..MaxMsgLen}

\* The commands of the tests of mach_client.rs.
TestDoubleQuotes ==
    <<"-", "-", "s", "e", "t", SP, "i", "t", "e", "m", SP,
      "l", "a", "b", "e", "l", "=", DQ, "h", "e", "l", "l", "o", SP,
      "w", "o", "r", "l", "d", DQ>>
TestSingleQuotes ==
    <<"-", "-", "s", "e", "t", SP, "i", "t", "e", "m", SP,
      "l", "a", "b", "e", "l", "=", SQ, "h", "e", "l", "l", "o", SP,
      "w", "o", "r", "l", "d", SQ>>
TestNoQuotes ==
    <<"-", "-", "s", "e", "t", SP, "i", "t", "e", "m", SP,
      "i", "c", "o", "n", "=", "X">>
TestMessages == {TestDoubleQuotes, TestSingleQuotes, TestNoQuotes}

\* for &byte in message_bytes { ... }, from byte i on.
RECURSIVE FormatFrom(_, _, _, _)
FormatFrom(message, i, formatted, quote) ==
    IF i > Len(message) THEN formatted
    ELSE LET byte == message[i]
         IN IF byte = DQ \/ byte = SQ
            THEN IF quote = byte
                 THEN FormatFrom(message, i + 1, formatted, NoQuote)
                 ELSE IF quote = NoQuote
                 THEN FormatFrom(message, i + 1, formatted, byte)
                 ELSE FormatFrom(message, i + 1, Append(formatted, byte), quote)
            ELSE IF byte = SP /\ quote = NoQuote
                 THEN FormatFrom(message, i + 1, Append(formatted, NUL), quote)
                 ELSE FormatFrom(message, i + 1, Append(formatted, byte), quote)

\* format_message without the removal of the last of two trailing NULs.
FormatMessageNoPop(message) ==
    Append(FormatFrom(message, 1, <<>>, NoQuote), NUL)

\* format_message(message): the converted bytes, without the last of two
\* trailing NULs, and the terminator.
format_message(message) ==
    LET formatted == FormatFrom(message, 1, <<>>, NoQuote)
        n == Len(formatted)
        popped == IF n > 1 /\ formatted[n] = NUL /\ formatted[n - 1] = NUL
                  THEN SubSeq(formatted, 1, n - 1)
                  ELSE formatted
    IN Append(popped, NUL)

InitFormatVars == fmOut = None

\* let formatted = format_message(command);
FormatMessage ==
    /\ UNCHANGED otherThanFormat
    /\ fmOut = None
    /\ fmOut' = Some(format_message(fmIn))
    /\ UNCHANGED fmIn

(***************************************************************************)
(* handlers.rs: SketchybarBatch.                                           *)
(***************************************************************************)
MaxProps == 1        \* properties in one call of set
MaxOps == 2          \* calls of set and animate on the batch
MaxExecs == 2        \* calls of execute on the batch

DashSet == <<"-", "-", "s", "e", "t">>
DashAnimate == <<"-", "-", "a", "n", "i", "m", "a", "t", "e">>

\* The items, keys, values, curves and durations of the calls.
BatchItems == {<<"w", "1">>}
PropKeys == {<<"k">>}
PropValues == {<<>>, <<"a", SP, "b">>, <<"a", TAB>>, <<"a", DQ>>}
PropLists == UNION {[1..n -> PropKeys \X PropValues] : n \in 0..MaxProps}
Curves == {<<"t">>}
Durations == {5, 15}

\* value.contains(' ')
ContainsSpace(value) == \E i \in 1..Len(value) : value[i] = SP

\* u32::to_string
RECURSIVE DecimalString(_)
DecimalString(n) ==
    IF n < 10 THEN <<ToString(n)>>
    ELSE DecimalString(n \div 10) \o <<ToString(n % 10)>>

\* set that quotes no value.
FormatPropNeverQuoted(key, value) == key \o <<"=">> \o value

\* format!("{}=\"{}\"", key, value) or format!("{}={}", key, value)
FormatProp(key, value) ==
    IF ContainsSpace(value) \/ value = <<>>
    THEN key \o <<"=", DQ>> \o value \o <<DQ>>
    ELSE key \o <<"=">> \o value

\* SketchybarBatch::set: the args after the call.
BatchSetArgs(args, item, props) ==
    args \o <<DashSet, item>>
         \o [i \in 1..Len(props) |-> FormatProp(props[i][1], props[i][2])]

\* SketchybarBatch::animate: the args after the call.
BatchAnimateArgs(args, curve, duration) ==
    args \o <<DashAnimate, curve, DecimalString(duration)>>

\* self.args.join(" ")
RECURSIVE JoinFrom(_, _)
JoinFrom(args, i) ==
    IF i > Len(args) THEN <<>>
    ELSE IF i = Len(args) THEN args[i]
    ELSE args[i] \o <<SP>> \o JoinFrom(args, i + 1)

Join(args) == JoinFrom(args, 1)

\* The calls of set and animate made on the batch: each adds at least 2 args.
OpsMade == Cardinality({i \in 1..Len(bArgs) : bArgs[i] \in {DashSet, DashAnimate}})

InitBatchVars ==
    /\ bArgs = <<>>
    /\ bDelivered = <<>>
    /\ bResult = "none"
    /\ bExecs = 0
    /\ bTokens = <<>>

\* batch.set(item, props)
BatchSet ==
    /\ UNCHANGED otherThanBatch
    /\ OpsMade < MaxOps
    /\ \E item \in BatchItems, props \in PropLists :
        /\ bArgs' = BatchSetArgs(bArgs, item, props)
        /\ bTokens' = bTokens \o <<DashSet, item>>
                         \o [i \in 1..Len(props) |->
                                props[i][1] \o <<"=">> \o props[i][2]]
    /\ UNCHANGED <<bDelivered, bResult, bExecs>>

\* batch.animate(curve, duration)
BatchAnimate ==
    /\ UNCHANGED otherThanBatch
    /\ OpsMade < MaxOps
    /\ \E curve \in Curves, duration \in Durations :
        /\ bArgs' = BatchAnimateArgs(bArgs, curve, duration)
        /\ bTokens' = bTokens \o <<DashAnimate, curve, DecimalString(duration)>>
    /\ UNCHANGED <<bDelivered, bResult, bExecs>>

\* execute without the early return for no args.
BatchExecuteNoEmptyCheck ==
    /\ UNCHANGED otherThanBatch
    /\ bExecs < MaxExecs
    /\ bExecs' = bExecs + 1
    /\ bDelivered' = Append(bDelivered, Join(bArgs))
    /\ \E r \in {"Ok", "Err"} : bResult' = r
    /\ UNCHANGED <<bArgs, bTokens>>

\* batch.execute(): Ok(()) for no args; otherwise the joined args go to
\* mach_client::sketchybar, whose result is returned.
BatchExecute ==
    /\ UNCHANGED otherThanBatch
    /\ bExecs < MaxExecs
    /\ bExecs' = bExecs + 1
    /\ IF bArgs = <<>>
       THEN /\ bResult' = "Ok"
            /\ UNCHANGED bDelivered
       ELSE /\ bDelivered' = Append(bDelivered, Join(bArgs))
            /\ \E r \in {"Ok", "Err"} : bResult' = r
    /\ UNCHANGED <<bArgs, bTokens>>

(***************************************************************************)
(* daemon.rs: handle_client.  Each connection has its own thread, which    *)
(* reads a line, runs the handlers of its event one after the other and    *)
(* reads the next line.  handle_workspace_refresh is the pass of Spec.     *)
(***************************************************************************)
MaxLines == 2        \* lines read from all connections

\* The first tokens of the lines; "other" is a line no arm matches.
DaemonEvents ==
    {"on-volume-changed", "on-focus-changed", "on-workspace-changed",
     "on-brew-clicked", "trigger-teams-refresh",
     "on-display-configuration-changed", "on-power-source-changed",
     "on-system-wake", "other"}

\* The app name handle_focus_refresh ends up with: the argument of the line
\* or the answer of aerospace; "" when there is no focused window.
FocusApps == {"AppX", "AppY", ""}

\* The handlers an event runs, in call order.
HandlersSkipClock(ev) ==
    CASE ev = "on-volume-changed" -> <<"volume">>
      [] ev = "on-focus-changed" -> <<"focus">>
      [] ev = "on-workspace-changed" -> <<"workspace">>
      [] ev = "on-brew-clicked" -> <<"brew">>
      [] ev = "trigger-teams-refresh" -> <<"teams">>
      [] ev = "on-display-configuration-changed" -> <<"workspace">>
      [] ev = "on-power-source-changed" -> <<"battery">>
      [] ev = "on-system-wake" -> <<"workspace", "battery", "teams">>
      [] OTHER -> <<>>

HandlersOf(ev) ==
    CASE ev = "on-volume-changed" -> <<"volume">>
      [] ev = "on-focus-changed" -> <<"focus">>
      [] ev = "on-workspace-changed" -> <<"workspace">>
      [] ev = "on-brew-clicked" -> <<"brew">>
      [] ev = "trigger-teams-refresh" -> <<"teams">>
      [] ev = "on-display-configuration-changed" -> <<"workspace">>
      [] ev = "on-power-source-changed" -> <<"battery">>
      [] ev = "on-system-wake" -> <<"workspace", "battery", "clock", "teams">>
      [] OTHER -> <<>>

\* The handler that follows handler h in the arm of event ev, or "wait".
NextHandler(ev, h) ==
    LET hs == HandlersOf(ev)
        i == CHOOSE j \in 1..Len(hs) : hs[j] = h
    IN IF i < Len(hs) THEN hs[i + 1] ELSE "wait"

InitDaemonVars ==
    /\ dPc = [t \in Threads |-> "wait"]
    /\ dEvent = [t \in Threads |-> "none"]
    /\ dApp = [t \in Threads |-> ""]
    /\ front_app = ""
    /\ dLines = 0
    /\ shown_app = ""
    /\ focusResult = [a \in FocusApps \ {""} |-> "none"]

otherThanDaemonAndRefresh ==
    <<varsSnap, varsMach, varsRender, varsMain, varsFormat, varsBatch, varsBuild>>

\* for line in reader.lines() { match parts.get(0) ... }: the thread reads a
\* line and enters the first handler of its arm.  handle_workspace_refresh
\* starts with let now = Instant::now().
DaemonRead(t) ==
    /\ UNCHANGED otherThanDaemonAndRefresh
    /\ dPc[t] = "wait"
    /\ dLines < MaxLines
    /\ dLines' = dLines + 1
    /\ \E ev \in DaemonEvents, app \in FocusApps :
        /\ (ev # "on-focus-changed") => app = ""
        /\ dEvent' = [dEvent EXCEPT ![t] = IF HandlersOf(ev) = <<>> THEN "none" ELSE ev]
        /\ dApp' = [dApp EXCEPT ![t] = app]
        /\ dPc' = [dPc EXCEPT ![t] =
                      IF HandlersOf(ev) = <<>> THEN "wait" ELSE HandlersOf(ev)[1]]
        /\ IF HandlersOf(ev) # <<>> /\ HandlersOf(ev)[1] = "workspace"
           THEN /\ pc' = [pc EXCEPT ![t] = "gate"]
                /\ now' = [now EXCEPT ![t] = clock]
           ELSE UNCHANGED <<pc, now>>
    /\ UNCHANGED <<front_app, shown_app, focusResult>>
    /\ UNCHANGED <<clock, wm, shown, last_workspace_change,
                   previous_workspaces, all_displays, infos, prev, batches,
                   readOk, gateLog>>

\* handle_workspace_refresh has returned: the next handler of the arm.
WorkspaceReturn(t) ==
    /\ UNCHANGED otherThanDaemonAndRefresh
    /\ dPc[t] = "workspace"
    /\ pc[t] = "idle"
    /\ LET h == NextHandler(dEvent[t], "workspace")
       IN /\ dPc' = [dPc EXCEPT ![t] = h]
          /\ dEvent' = [dEvent EXCEPT ![t] = IF h = "wait" THEN "none" ELSE @]
    /\ UNCHANGED <<dApp, front_app, dLines, shown_app, focusResult>>
    /\ UNCHANGED varsRefresh

\* A handler that reads and writes no daemon state: handle_volume_refresh,
\* handle_brew_upgrade, handle_battery_refresh, handle_clock_refresh,
\* handle_teams_refresh.
StatelessHandlers == {"volume", "brew", "battery", "clock", "teams"}

HandleStateless(t) ==
    /\ UNCHANGED otherThanDaemon
    /\ dPc[t] \in StatelessHandlers
    /\ LET h == NextHandler(dEvent[t], dPc[t])
       IN /\ dPc' = [dPc EXCEPT ![t] = h]
          /\ dEvent' = [dEvent EXCEPT ![t] = IF h = "wait" THEN "none" ELSE @]
    /\ UNCHANGED <<dApp, front_app, dLines, shown_app, focusResult>>

\* handle_focus_refresh up to the end of its critical section: return for an
\* empty app name or the app already shown, else store the app name.
HandleFocusState(t) ==
    /\ UNCHANGED otherThanDaemon
    /\ dPc[t] = "focus"
    /\ IF dApp[t] = "" \/ front_app = dApp[t]
       THEN /\ dPc' = [dPc EXCEPT ![t] = "wait"]
            /\ dEvent' = [dEvent EXCEPT ![t] = "none"]
            /\ dApp' = [dApp EXCEPT ![t] = ""]
            /\ UNCHANGED front_app
       ELSE /\ front_app' = dApp[t]
            /\ dPc' = [dPc EXCEPT ![t] = "focus_update"]
            /\ UNCHANGED <<dEvent, dApp>>
    /\ UNCHANGED <<dLines, shown_app, focusResult>>

\* A focus handler that takes back the stored app when the update fails.
HandleFocusUpdateRollback(t) ==
    /\ UNCHANGED otherThanDaemon
    /\ dPc[t] = "focus_update"
    /\ dPc' = [dPc EXCEPT ![t] = "wait"]
    /\ \E ok \in BOOLEAN :
        /\ front_app' = IF ok THEN front_app ELSE ""
        /\ shown_app' = IF ok THEN dApp[t] ELSE shown_app
        /\ focusResult' = [focusResult EXCEPT ![dApp[t]] = IF ok THEN "ok" ELSE "err"]
    /\ dEvent' = [dEvent EXCEPT ![t] = "none"]
    /\ dApp' = [dApp EXCEPT ![t] = ""]
    /\ UNCHANGED dLines

\* update_front_app(icon, &app_name): the renderer shows the app name, or
\* the delivery fails and the error is logged.
HandleFocusUpdate(t) ==
    /\ UNCHANGED otherThanDaemon
    /\ dPc[t] = "focus_update"
    /\ \E ok \in BOOLEAN :
        /\ shown_app' = IF ok THEN dApp[t] ELSE shown_app
        /\ focusResult' = [focusResult EXCEPT ![dApp[t]] = IF ok THEN "ok" ELSE "err"]
    /\ dPc' = [dPc EXCEPT ![t] = "wait"]
    /\ dEvent' = [dEvent EXCEPT ![t] = "none"]
    /\ dApp' = [dApp EXCEPT ![t] = ""]
    /\ UNCHANGED <<front_app, dLines>>

(***************************************************************************)
(* The specifications.                                                     *)
(***************************************************************************)
vars == <<varsSnap, varsRefresh, varsMach, varsRender, varsMain, varsFormat, varsBatch, varsBuild, varsDaemon>>

Init ==
    /\ InitRefreshVars
    /\ wm = 1
    /\ InitSnapVars
    /\ show_all_windows = FALSE
    /\ InitMachVars
    /\ servicePort = 1
    /\ InitRenderVars
    /\ InitMainVars
    /\ InitFormatVars
    /\ fmIn = <<>>
    /\ InitBatchVars
    /\ InitDaemonVars
    /\ InitBuildVars
    /\ bmIn = BuildExample
    /\ screens = 1

Next ==
    \/ \E t \in Threads : Notify(t)
    \/ \E t \in Threads : Gate(t)
    \/ \E t \in Threads : Settle(t)
    \/ \E t \in Threads : Probe(t)
    \/ \E t \in Threads : Read(t)
    \/ \E t \in Threads : Swap(t)
    \/ \E t \in Threads : Render(t)
    \/ \E t \in Threads : Execute(t)
    \/ \E t \in Threads : Borders(t)
    \/ Tick
    \/ WmChange
    \/ WmDown

Spec == Init /\ [][Next]_vars

\* The same handler with a window manager that stands still and a clock that
\* meets both sides of the debounce window.
InitGate ==
    /\ InitRefreshVars
    /\ wm = 2
    /\ InitSnapVars
    /\ show_all_windows = FALSE
    /\ InitMachVars
    /\ servicePort = 1
    /\ InitRenderVars
    /\ InitMainVars
    /\ InitFormatVars
    /\ fmIn = <<>>
    /\ InitBatchVars
    /\ InitDaemonVars
    /\ InitBuildVars
    /\ bmIn = BuildExample
    /\ screens = 1

NextGate ==
    \/ \E t \in Threads : Notify(t)
    \/ \E t \in Threads : Gate(t)
    \/ \E t \in Threads : Settle(t)
    \/ \E t \in Threads : Probe(t)
    \/ \E t \in Threads : Read(t)
    \/ \E t \in Threads : Swap(t)
    \/ \E t \in Threads : Render(t)
    \/ \E t \in Threads : Execute(t)
    \/ \E t \in Threads : Borders(t)
    \/ TickFine

SpecGate == InitGate /\ [][NextGate]_vars

\* The steps of the handler on thread t.
PassStep(t) ==
    \/ Gate(t) \/ Settle(t) \/ Probe(t) \/ Read(t) \/ Swap(t)
    \/ Render(t) \/ Execute(t) \/ Borders(t)

\* The handler with a window manager that stands still, where every thread
\* is scheduled, every call and sleep of the handler returns, and time
\* passes.
NextPass ==
    \/ \E t \in Threads : Notify(t)
    \/ \E t \in Threads : Gate(t)
    \/ \E t \in Threads : Settle(t)
    \/ \E t \in Threads : Probe(t)
    \/ \E t \in Threads : Read(t)
    \/ \E t \in Threads : Swap(t)
    \/ \E t \in Threads : Render(t)
    \/ \E t \in Threads : Execute(t)
    \/ \E t \in Threads : Borders(t)
    \/ Tick

SpecPass ==
    /\ InitGate
    /\ [][NextPass]_vars
    /\ \A t \in Threads : WF_vars(PassStep(t))
    /\ WF_vars(Tick)

InitSnap ==
    /\ InitSnapVars
    /\ show_all_windows \in BOOLEAN
    /\ InitRefreshVars
    /\ wm = 1
    /\ InitMachVars
    /\ servicePort = 1
    /\ InitRenderVars
    /\ InitMainVars
    /\ InitFormatVars
    /\ fmIn = <<>>
    /\ InitBatchVars
    /\ InitDaemonVars
    /\ InitBuildVars
    /\ bmIn = BuildExample
    /\ screens = 1

NextSnap ==
    \/ GwiFirstRead
    \/ GwiCheck
    \/ GwiRetry
    \/ GwiGroup
    \/ GwiFocusQuery
    \/ GwiBuild

SpecSnap == InitSnap /\ [][NextSnap]_vars

\* The call runs on its thread until it returns: every command it runs ends.
SpecSnapFair == SpecSnap /\ WF_vars(NextSnap)

InitMach ==
    /\ InitMachVars
    /\ servicePort \in {0, 1}
    /\ InitSnapVars
    /\ show_all_windows = FALSE
    /\ InitRefreshVars
    /\ wm = 1
    /\ InitRenderVars
    /\ InitMainVars
    /\ InitFormatVars
    /\ fmIn = <<>>
    /\ InitBatchVars
    /\ InitDaemonVars
    /\ InitBuildVars
    /\ bmIn = BuildExample
    /\ screens = 1

NextMach ==
    \/ \E c \in Callers : SketchybarLookup(c)
    \/ \E c \in Callers : SketchybarSend(c)
    \/ ServiceStop
    \/ ServiceStart

SpecMach == InitMach /\ [][NextMach]_vars

\* Every WorkspaceInfo, position and mode the render loops can be handed.
InitRender ==
    /\ rI \in {1, 2}
    /\ \E a \in AppLists, f \in BOOLEAN, d \in Displays, sa \in BOOLEAN :
         rInfo = [id |-> ToString(rI), apps |-> a, icons |-> IconApps(a, sa),
                  is_focused |-> f, display_id |-> d]
    /\ rSingle \in BOOLEAN
    /\ rPosition \in {0, 1}
    /\ rOut = None
    /\ rMainOut = None
    /\ InitSnapVars
    /\ show_all_windows = FALSE
    /\ InitRefreshVars
    /\ wm = 1
    /\ InitMachVars
    /\ servicePort = 1
    /\ InitMainVars
    /\ InitFormatVars
    /\ fmIn = <<>>
    /\ InitBatchVars
    /\ InitDaemonVars
    /\ InitBuildVars
    /\ bmIn = BuildExample
    /\ screens = 1

NextRender ==
    \/ RenderHandlers
    \/ RenderMain

SpecRender == InitRender /\ [][NextRender]_vars

InitMain ==
    /\ InitMainVars
    /\ InitFormatVars
    /\ fmIn = <<>>
    /\ InitBatchVars
    /\ InitDaemonVars
    /\ InitBuildVars
    /\ bmIn = BuildExample
    /\ screens \in Arrangements
    /\ InitSnapVars
    /\ show_all_windows = FALSE
    /\ InitRefreshVars
    /\ wm = 1
    /\ InitMachVars
    /\ servicePort = 1
    /\ InitRenderVars

NextMain ==
    \/ \E t \in Threads : MainNotify(t)
    \/ \E t \in Threads : MainSleep(t)
    \/ \E t \in Threads : MainLock(t)
    \/ \E t \in Threads : MainCacheCheck(t)
    \/ \E t \in Threads : MainBuild(t)
    \/ \E t \in Threads : MainStore(t)
    \/ \E t \in Threads : MainRead(t)
    \/ \E t \in Threads : MainRender(t)
    \/ \E t \in Threads : MainExecute(t)
    \/ \E t \in Threads : MainReturn(t)
    \/ MainTick
    \/ ScreensChange

SpecMain == InitMain /\ [][NextMain]_vars

\* Every command string up to the bound, and the commands of the tests.
InitFormat ==
    /\ fmIn \in Msgs \cup TestMessages
    /\ InitFormatVars
    /\ InitBatchVars
    /\ InitDaemonVars
    /\ InitBuildVars
    /\ bmIn = BuildExample
    /\ InitMainVars
    /\ screens = 1
    /\ InitSnapVars
    /\ show_all_windows = FALSE
    /\ InitRefreshVars
    /\ wm = 1
    /\ InitMachVars
    /\ servicePort = 1
    /\ InitRenderVars

NextFormat == FormatMessage

SpecFormat == InitFormat /\ [][NextFormat]_vars

InitDaemon ==
    /\ InitDaemonVars
    /\ InitRefreshVars
    /\ wm = 2
    /\ InitSnapVars
    /\ show_all_windows = FALSE
    /\ InitMachVars
    /\ servicePort = 1
    /\ InitRenderVars
    /\ InitMainVars
    /\ screens = 1
    /\ InitFormatVars
    /\ fmIn = <<>>
    /\ InitBatchVars
    /\ InitBuildVars
    /\ bmIn = BuildExample

NextDaemon ==
    \/ \E t \in Threads : DaemonRead(t)
    \/ \E t \in Threads : WorkspaceReturn(t)
    \/ \E t \in Threads : HandleStateless(t)
    \/ \E t \in Threads : HandleFocusState(t)
    \/ \E t \in Threads : HandleFocusUpdate(t)
    \/ \E t \in Threads : Gate(t)
    \/ \E t \in Threads : Settle(t)
    \/ \E t \in Threads : Probe(t)
    \/ \E t \in Threads : Read(t)
    \/ \E t \in Threads : Swap(t)
    \/ \E t \in Threads : Render(t)
    \/ \E t \in Threads : Execute(t)
    \/ \E t \in Threads : Borders(t)
    \/ Tick

SpecDaemon == InitDaemon /\ [][NextDaemon]_vars

InitBuild ==
    /\ InitBuildVars
    /\ bmIn \in BuildInputs
    /\ InitBatchVars
    /\ InitDaemonVars
    /\ InitFormatVars
    /\ fmIn = <<>>
    /\ InitMainVars
    /\ screens = 1
    /\ InitSnapVars
    /\ show_all_windows = FALSE
    /\ InitRefreshVars
    /\ wm = 1
    /\ InitMachVars
    /\ servicePort = 1
    /\ InitRenderVars

NextBuild == BuildMappings

SpecBuild == InitBuild /\ [][NextBuild]_vars

InitBatch ==
    /\ InitBatchVars
    /\ InitDaemonVars
    /\ InitBuildVars
    /\ bmIn = BuildExample
    /\ InitFormatVars
    /\ fmIn = <<>>
    /\ InitMainVars
    /\ screens = 1
    /\ InitSnapVars
    /\ show_all_windows = FALSE
    /\ InitRefreshVars
    /\ wm = 1
    /\ InitMachVars
    /\ servicePort = 1
    /\ InitRenderVars

NextBatch ==
    \/ BatchSet
    \/ BatchAnimate
    \/ BatchExecute

SpecBatch == InitBatch /\ [][NextBatch]_vars

\* get_mappings called by concurrent threads on one MonitorMapper.
NextMapper ==
    \/ \E t \in Threads : MapperCall(t)
    \/ \E t \in Threads : MainCacheCheck(t)
    \/ \E t \in Threads : MainBuild(t)
    \/ \E t \in Threads : MainStore(t)
    \/ \E t \in Threads : MapperReturn(t)
    \/ MainTick
    \/ ScreensChange

SpecMapper == InitMain /\ [][NextMapper]_vars


(***************************************************************************)
(* The debounce gate (specification SpecGate).                             *)
(***************************************************************************)
\* The entries of gateLog before k that were accepted.
AcceptedBefore(k) == {i \in 1..(k - 1) : gateLog[i].accepted}

\* The entry of gateLog the gate compared entry k with: the last accepted one.
LastAcceptedBefore(k) ==
    CHOOSE i \in AcceptedBefore(k) : \A j \in AcceptedBefore(k) : j <= i

Apart(i, j) ==
    IF gateLog[i].ts >= gateLog[j].ts
    THEN gateLog[i].ts - gateLog[j].ts
    ELSE gateLog[j].ts - gateLog[i].ts

\* C1, as stated: of any two notifications stamped less than 100 ms apart
\* exactly one runs a pass, and of any two stamped 100 ms or more apart both
\* run a pass.
C1_AnyTwoNotifications ==
    \A i, j \in 1..Len(gateLog) :
        i < j =>
            IF Apart(i, j) < DebounceMs
            THEN gateLog[i].accepted # gateLog[j].accepted
            ELSE gateLog[i].accepted /\ gateLog[j].accepted

\* C1, as amended: a notification runs a pass exactly when the gate accepted
\* no notification before it, or its timestamp is at least 100 ms later than
\* the timestamp of the notification the gate accepted last.
C1_GateDecision ==
    \A k \in 1..Len(gateLog) :
        gateLog[k].accepted <=>
            \/ AcceptedBefore(k) = {}
            \/ gateLog[k].ts - gateLog[LastAcceptedBefore(k)].ts >= DebounceMs

\* C1: an accepted notification, one dropped inside its window and one
\* accepted exactly at the end of the window.
C1_Witness ==
    /\ Len(gateLog) = 3
    /\ gateLog[1].accepted /\ ~gateLog[2].accepted /\ gateLog[3].accepted
    /\ gateLog[2].ts - gateLog[1].ts \in 1..(DebounceMs - 1)
    /\ gateLog[3].ts - gateLog[1].ts = DebounceMs

\* C2: in every interleaving, any two notifications that pass the gate have
\* timestamps at least 100 ms apart.
C2_AcceptedApart ==
    \A i, j \in 1..Len(gateLog) :
        (i < j /\ gateLog[i].accepted /\ gateLog[j].accepted)
            => Apart(i, j) >= DebounceMs

\* C2: two notifications have passed the gate, and an invocation that took its
\* timestamp before the second of them reached the mutex after it.
C2_Witness ==
    \E i, j, k \in 1..Len(gateLog) :
        /\ i < j /\ j < k
        /\ gateLog[i].accepted /\ gateLog[j].accepted
        /\ gateLog[k].ts < gateLog[j].ts


\* C32: every notification is followed by a pass whose snapshot read starts
\* after the notification arrived: the gate drops a notification only while
\* an accepted pass has still to read its snapshot.
C32_DroppedOnlyWithReadPending ==
    [][\A t \in Threads :
          (pc[t] = "gate" /\ pc'[t] = "idle")
          => \E u \in Threads : pc[u] \in {"settle", "probe", "read"}]_vars

\* The order of the stages of one invocation: the gate, then Debounced (the
\* return) or Settling, Diffing (the two snapshot reads and the swap of the
\* previous set), Rendering (the batches built and executed) and Done.
PassOrder ==
    {<<"idle", "gate">>, <<"gate", "idle">>, <<"gate", "settle">>,
     <<"settle", "probe">>, <<"probe", "read">>, <<"read", "swap">>,
     <<"swap", "render">>, <<"render", "execute">>, <<"execute", "idle">>}

\* C39: an invocation that passes the gate goes through the stages in order,
\* replaces the previous set by the ids of its snapshot, returns only when
\* every batch was executed, and does return when its calls and sleeps
\* return; a debounced invocation returns from the gate and leaves
\* last_workspace_change, previous_workspaces and the renderer unchanged
\* and reads no snapshot.
C39_PassReachesDone ==
    /\ [][\A t \in Threads :
            /\ pc'[t] # pc[t] => <<pc[t], pc'[t]>> \in PassOrder
            /\ (pc[t] = "gate" /\ pc'[t] = "idle") =>
                  /\ last_workspace_change' = last_workspace_change
                  /\ previous_workspaces' = previous_workspaces
                  /\ shown' = shown
                  /\ all_displays'[t] = {} /\ infos'[t] = EmptyMap
            /\ (pc[t] = "swap" /\ pc'[t] = "render") =>
                  previous_workspaces' = DOMAIN infos[t]
            /\ (pc[t] = "execute" /\ pc'[t] = "idle") =>
                  DOMAIN batches[t] = {}]_vars
    /\ \A t \in Threads :
          (pc[t] = "settle" /\ now[t] + DebounceMs <= MaxTime) ~> (pc[t] = "idle")

\* C39: one invocation was debounced and one has reached Done, with both
\* workspaces in the previous set and drawn by the renderer.
C39_Witness ==
    /\ \A t \in Threads : pc[t] = "idle"
    /\ \E i \in 1..Len(gateLog) : gateLog[i].accepted
    /\ \E i \in 1..Len(gateLog) : ~gateLog[i].accepted
    /\ previous_workspaces = {"1", "2"}
    /\ shown = {"1", "2"}

(***************************************************************************)
(* The clear-set and the persisted previous set (specification Spec).      *)
(***************************************************************************)
\* A clear directive: the only directives with drawing=off (lines 503-507).
IsClear(dir) == dir.props.drawing = "off"

\* The ids the batches of a pass carry a clear directive for.
ClearedIds(bs) ==
    UNION {{bs[d][i].item : i \in {j \in 1..Len(bs[d]) : IsClear(bs[d][j])}} :
              d \in DOMAIN bs}

\* Thread t builds its batches in this step.
RenderStep(t) == pc[t] = "render" /\ pc'[t] = "execute"

\* Thread t replaces previous_workspaces in this step.
SwapStep(t) == pc[t] = "swap" /\ pc'[t] = "render"

\* Thread t executes one batch in this step, or finishes.
ExecuteStep(t) == pc[t] = "execute" /\ (batches'[t] # batches[t] \/ pc'[t] = "idle")

\* C3: a pass with previous set A and snapshot set B emits clear directives
\* for exactly the ids of A \ B, and leaves previous_workspaces = B whether or
\* not an execute failed.
C3_ClearSetAndPrevious ==
    [][\A t \in Threads :
          /\ SwapStep(t) => previous_workspaces' = DOMAIN infos[t]
          /\ RenderStep(t) =>
                ClearedIds(batches'[t]) = prev[t] \ DOMAIN infos[t]
          /\ ExecuteStep(t) => previous_workspaces' = previous_workspaces]_vars

\* C4: a pass whose window-manager query failed leaves previous_workspaces
\* unchanged.
C4_PreviousKeptOnFailedRead ==
    [][\A t \in Threads :
          (SwapStep(t) /\ ~readOk[t])
              => previous_workspaces' = previous_workspaces]_vars

\* C8: a workspace of the previous pass that is absent from the snapshot has
\* a clear directive in the batch of every display of the pass, before every
\* directive that is not a clear directive.
C8_ClearFirstOnEveryDisplay ==
    [][\A t \in Threads :
          RenderStep(t) =>
             \A ws \in prev[t] \ DOMAIN infos[t] :
                \A d \in DOMAIN batches'[t] :
                   \E i \in 1..Len(batches'[t][d]) :
                      /\ batches'[t][d][i] = ClearDirective(ws, d)
                      /\ \A j \in 1..(i - 1) : IsClear(batches'[t][d][j])]_vars


\* C15: every batch of a pass is executed: an execute, failed or not, takes
\* one batch and leaves the others to be executed, a failed one changes
\* nothing at the renderer, and the pass ends only when no batch is left.
C15_EveryBatchExecuted ==
    [][\A t \in Threads :
          /\ (pc[t] = "execute" /\ batches'[t] # batches[t]) =>
                /\ pc'[t] = "execute"
                /\ \E d \in DOMAIN batches[t] :
                      /\ batches'[t] = Without(batches[t], d)
                      /\ shown' \in {shown, Deliver(shown, batches[t][d])}
          /\ (pc[t] = "execute" /\ pc'[t] = "idle") => DOMAIN batches[t] = {}]_vars

\* C15: the one pass made so far had a batch for display 1 (workspace 1) and
\* one for display 3 (workspace 2); the first failed, the second was
\* delivered.
C15_Witness ==
    /\ Len(gateLog) = 1
    /\ previous_workspaces = {"1", "2"}
    /\ \E t \in Threads : pc[t] = "execute" /\ DOMAIN batches[t] = {}
    /\ shown = {"2"}

\* The ids a batch carries a clear directive for.
BatchClears(batch) ==
    {batch[i].item : i \in {j \in 1..Len(batch) : IsClear(batch[j])}}

\* C34: when the execute of a batch fails that carries the clear directive of
\* a workspace the renderer still draws, the workspace stays in
\* previous_workspaces, so that the next pass computes a clear directive for
\* it again.
C34_FailedClearEmittedAgain ==
    [][\A t \in Threads : \A d \in DOMAIN batches[t] :
          (/\ pc[t] = "execute"
           /\ batches'[t] = Without(batches[t], d)
           /\ shown' = shown)
          => (BatchClears(batches[t][d]) \cap shown) \subseteq previous_workspaces']_vars

\* The monitors of the window manager: those its workspaces sit on.
WmMonitors == {MonitorOf(ws) : ws \in Workspaces}

\* C40: a pass that is about to read its snapshot is in single-monitor mode
\* exactly when the window manager has exactly one monitor, wherever the
\* windows are.
C40_SingleModeIffOneMonitor ==
    \A t \in Threads :
        pc[t] = "read" =>
            (Cardinality(all_displays[t]) = 1 <=> Cardinality(WmMonitors) = 1)

\* The places (display, index) of the batches that hold a set directive of
\* workspace k.
SetPlaces(bs, k) ==
    UNION {{<<d, i>> : i \in {j \in 1..Len(bs[d]) :
                                 ~IsClear(bs[d][j]) /\ bs[d][j].item = k}} :
              d \in DOMAIN bs}

\* C25: in every pass each workspace of the snapshot has one display id, and
\* its set directive is in the batch of that display, once, and in the batch
\* of no other display; no other workspace has a set directive.
C25_OneDisplayPerWorkspace ==
    [][\A t \in Threads : RenderStep(t) =>
          /\ \A k \in DOMAIN infos[t] :
                /\ Cardinality(SetPlaces(batches'[t], k)) = 1
                /\ \A p \in SetPlaces(batches'[t], k) :
                      /\ p[1] = infos[t][k].display_id
                      /\ batches'[t][p[1]][p[2]].props.display = p[1]
          /\ \A k \in Workspaces \ DOMAIN infos[t] :
                SetPlaces(batches'[t], k) = {}]_vars

C25_Witness ==
    \E t \in Threads :
        /\ pc[t] = "execute"
        /\ \E d1, d2 \in DOMAIN batches[t] :
            /\ d1 # d2
            /\ SetPlaces(batches[t], "1") = {<<d1, 1>>}
            /\ SetPlaces(batches[t], "2") = {<<d2, 1>>}

\* All the directives of the batches of a pass.
Directives(bs) == UNION {Range(bs[d]) : d \in DOMAIN bs}

\* C26: with a single display in single-monitor mode, a window manager with
\* workspace "1" (AppX, focused) and workspace "2" (no apps, unfocused) makes
\* a pass produce two directives: workspace "1" drawn with its icon and the
\* accent background, and workspace "2" with drawing off.
C26_TwoDirectives ==
    [][\A t \in Threads :
          (/\ RenderStep(t)
           /\ Cardinality(all_displays[t]) = 1
           /\ infos[t] = SwapDisplays(Snapshot(1, FALSE)))
          => /\ Cardinality(Directives(batches'[t])) = 2
             /\ \E dir \in Directives(batches'[t]) :
                   /\ dir.item = "1"
                   /\ dir.props.drawing = "on"
                   /\ dir.props.icon # <<>>
                   /\ dir.props.background_drawing = "on"
             /\ \E dir \in Directives(batches'[t]) :
                   /\ dir.item = "2"
                   /\ dir.props.drawing = "off"]_vars

(***************************************************************************)
(* The snapshot reader (specification SpecSnap).                           *)
(***************************************************************************)
\* get_workspace_infos has left its retry loop: the last read is accepted.
Accepted == gPc \in {"group", "focus", "build", "done"}

\* C6: a read of zero windows right after a read of the same call that
\* returned more than zero triggers exactly one retry before the result is
\* accepted (stated for the reads a retry is still allowed after).
C6_EmptyAfterNonEmptyRetried ==
    Accepted =>
        \A k \in 2..Len(readLens) :
            (readLens[k] = 0 /\ readLens[k - 1] > 0 /\ k - 1 < max_retries)
                => Len(readLens) = k + 1

\* The workspaces the accepted window records flag as focused.
FlaggedFocused ==
    {windows[i].workspace : i \in {j \in 1..Len(windows) : windows[j].workspace_is_focused}}

\* The window manager reports a focused workspace: in a window record, or in
\* its answer to the query for the focused workspace.
ReportsFocused == FlaggedFocused # {} \/ focusAnswer # None

\* The workspaces of the returned snapshot with is_focused = true.
FocusedInResult == {k \in DOMAIN result : result[k].is_focused}

\* C7, as stated: whenever the window manager reports a focused workspace the
\* returned snapshot has exactly one workspace with is_focused = true.
C7_ExactlyOneFocused ==
    (gPc = "done" /\ ReportsFocused) => Cardinality(FocusedInResult) = 1

\* C7, as amended: whenever the window manager reports a focused workspace the
\* returned snapshot has at least one workspace with is_focused = true, and
\* exactly one when the window records flag windows of at most one workspace.
C7_FocusedPresent ==
    (gPc = "done" /\ ReportsFocused) =>
        /\ FocusedInResult # {}
        /\ Cardinality(FlaggedFocused) <= 1 => Cardinality(FocusedInResult) = 1

\* C7: after two retries the records still flag no window, the workspace the
\* query names holds windows, and the snapshot returns it as the focused one.
C7_Witness ==
    /\ gPc = "done"
    /\ retry_count = max_retries
    /\ FlaggedFocused = {}
    /\ focusAnswer # None
    /\ \E i \in 1..Len(windows) : windows[i].workspace = focusAnswer[1].workspace
    /\ FocusedInResult = {focusAnswer[1].workspace}

\* C16: an empty answer to the query for the focused workspace is retried,
\* while a retry is left, before the reader accepts that no workspace is
\* focused and goes on to build the snapshot.
C16_EmptyFocusAnswerRetried ==
    [][(gPc = "focus" /\ focusAnswer' = None /\ focusAsked'
            /\ retry_count < max_retries)
          => gPc' # "build"]_vars

\* C17: a read of at least one window of which none is marked focused is
\* followed by another read while fewer than 2 retries have been made, and a
\* read with a window marked focused is accepted without a retry.
C17_UnfocusedWindowsRetried ==
    [][/\ (gPc = "loop" /\ Len(windows) > 0 /\ ~AnyFocused(windows)
              /\ retry_count < max_retries) => gPc' = "retry"
       /\ (gPc = "loop" /\ AnyFocused(windows)) => gPc' = "group"
       /\ gPc = "retry" =>
              /\ Len(readLens') = Len(readLens) + 1
              /\ retry_count' = retry_count + 1]_vars

\* C17: after one retry the windows read still have none marked focused, and
\* the second retry is about to be made.
C17_Witness ==
    /\ gPc = "retry"
    /\ retry_count = 1
    /\ Len(windows) > 0
    /\ ~AnyFocused(windows)

\* The workspaces of the windows read last.
WindowWorkspaces == {windows[i].workspace : i \in 1..Len(windows)}

\* C18: get_workspace_infos makes at most 2 retries and 3 reads, sleeps
\* 20 ms before the first retry and 40 ms before the second, and terminates
\* with a snapshot of the windows it read last.
C18_BoundedRetries ==
    /\ [](/\ retry_count <= 2
          /\ Len(readLens) <= 3
          /\ gPc # "start" => Len(readLens) = retry_count + 1
          /\ delays = SubSeq(<<20, 40>>, 1, retry_count)
          /\ gPc = "done" =>
                /\ WindowWorkspaces \subseteq DOMAIN result
                /\ \A k \in DOMAIN result :
                      \/ /\ k \in WindowWorkspaces
                         /\ Len(result[k].apps) =
                               IF focusAnswer # None /\ focusAnswer[1].workspace = k
                               THEN 0
                               ELSE Cardinality({i \in 1..Len(windows) :
                                                   windows[i].workspace = k})
                      \/ /\ focusAnswer # None
                         /\ focusAnswer[1].workspace = k
                         /\ result[k].apps = <<>>)
    /\ <>(gPc = "done")

\* C18: the call has returned after two retries.
C18_Witness ==
    /\ gPc = "done"
    /\ Len(readLens) = 3
    /\ delays = <<20, 40>>
    /\ Len(windows) > 0

\* C33: the fallback entry of the focused workspace never removes or empties
\* the app list of a workspace built from window records: every app of every
\* window read is in the app list of its workspace in the returned snapshot.
C33_AppsOfWindowsKept ==
    gPc = "done" =>
        \A i \in 1..Len(windows) :
            /\ windows[i].workspace \in DOMAIN result
            /\ windows[i].app_name \in Range(result[windows[i].workspace].apps)

\* C38: every workspace of the returned snapshot has at least one app or is
\* focused, for every window list and every answer about the focused
\* workspace.
C38_AppsOrFocused ==
    gPc = "done" =>
        \A k \in DOMAIN result : Len(result[k].apps) > 0 \/ result[k].is_focused

C38_Witness ==
    /\ gPc = "done"
    /\ \E k \in DOMAIN result : Len(result[k].apps) = 0 /\ result[k].is_focused
    /\ \E k \in DOMAIN result : Len(result[k].apps) > 0 /\ ~result[k].is_focused

(***************************************************************************)
(* The port cache (specification SpecMach).                                *)
(***************************************************************************)
\* C5: when a delivery fails in send or receive, other than by a receive
\* timeout, the cached port is invalidated, so that the next call looks the
\* port up again.
C5_PortInvalidatedOnFailure ==
    [][\A c \in Callers :
          (cPc[c] = "send" /\ outcome'[c] \in {"send_error", "receive_error"})
              => MACH_PORT' = None]_vars

\* C13: the port is looked up only by a call that finds the cache empty; a
\* cached port is reused, without a lookup, by every later call of every
\* caller; a lookup that fails leaves the cache empty and one that succeeds
\* fills it.
C13_LookupOnlyOnEmptyCache ==
    [][/\ MACH_PORT # None => (lookups' = lookups /\ MACH_PORT' = MACH_PORT)
       /\ lookups' # lookups =>
             /\ MACH_PORT = None
             /\ lookups' = lookups + 1
             /\ MACH_PORT' = IF servicePort = 0 THEN None ELSE Some(servicePort)
       /\ \A c \in Callers :
             (cPc[c] = "idle" /\ cPc'[c] = "send") => MACH_PORT' = Some(cPort'[c])]_vars

\* C13: a lookup failed, the next one succeeded, and two later calls, in
\* flight together, both reuse the cached port.
C13_Witness ==
    /\ lookups = 2
    /\ calls = 4
    /\ MACH_PORT # None
    /\ \A c \in Callers : cPc[c] = "send" /\ cPort[c] = MACH_PORT[1]

\* C14: a receive timeout makes sketchybar() return success and leaves the
\* cached port as it is.
C14_TimeoutKeepsPort ==
    [][\A c \in Callers :
          (cPc[c] = "send" /\ outcome'[c] = "timeout")
              => /\ IsOk(outcome'[c])
                 /\ MACH_PORT' = MACH_PORT
                 /\ MACH_PORT' # None]_vars

\* C14: a call has ended in a receive timeout and the port is still cached.
C14_Witness ==
    \E c \in Callers :
        /\ cPc[c] = "idle"
        /\ outcome[c] = "timeout"
        /\ MACH_PORT = Some(servicePort)

(***************************************************************************)
(* The visual state of a workspace (specification SpecRender).             *)
(***************************************************************************)
\* The four visual states of C9, for settings p of a workspace.
VisualStateOf(p, has_apps, is_focused, is_single_monitor) ==
    IF has_apps /\ is_focused
    THEN p.drawing = "on" /\ p.icon_drawing = "on" /\ p.background_drawing = "on"
    ELSE IF has_apps
    THEN p.drawing = "on" /\ p.icon_drawing = "on" /\ p.background_drawing = "off"
    ELSE IF is_focused
    THEN p.drawing = "on" /\ p.icon_drawing = "off" /\ p.background_drawing = "on"
    ELSE IF is_single_monitor
    THEN p.drawing = "off"
    ELSE p.drawing = "on" /\ p.icon_drawing = "off" /\ p.background_drawing = "off"

Blocking == {"sleep", "build", "read", "execute"}

\* C10: no thread runs a subprocess, sleeps, does blocking I/O or delivers to
\* the renderer while it holds the daemon state mutex.
C10_NoBlockingUnderStateLock ==
    \A t \in Threads : stateLock = t => mPc[t] \notin Blocking


(***************************************************************************)
(* The display-mapping cache (specifications SpecMapper and SpecMain).     *)
(***************************************************************************)
\* The threads that rebuild the mappings: between the miss and the update
\* of the cache.
Rebuilding == {t \in Threads : mPc[t] \in {"build", "store"}}

C12_RebuildAfterDisplayChange ==
    [][\A t \in Threads :
          (mPc[t] = "check" /\ mPc'[t] # "check" /\ displayChanged)
              => mPc'[t] = "build"]_vars


\* The cache holds no entry, or one older than the time to live.
CacheStale == mCache = None \/ mTime - mCache[1].created_at > CacheTtlSecs

\* C24: get_mappings rebuilds the mapping only when the cache is empty or
\* older than the 5-minute time to live; in every other call it returns the
\* cached mapping and leaves the cache as it is; the cache changes only at the
\* end of a rebuild, and a failed render of the workspaces causes no rebuild.
C24_RebuildOnlyWhenStale ==
    [][\A t \in Threads :
        /\ (mPc[t] # "build" /\ mPc'[t] = "build") => CacheStale
        /\ (mPc[t] = "check" /\ ~CacheStale) =>
                (mPc'[t] = "check"
                 \/ (mPc'[t] = "read" /\ mMappings'[t] = mCache[1].mappings
                     /\ mCache' = mCache))
        /\ mCache' # mCache => \E u \in Threads : mPc[u] = "store"
        /\ (mPc[t] = "execute" /\ mBatches'[t] # mBatches[t]) =>
                (mCache' = mCache /\ mPc'[t] = "execute")]_vars

C24_Witness ==
    /\ \A t \in Threads : mPc[t] = "read"
    /\ mCache # None
    /\ mCache[1].created_at = 0
    /\ mTime = CacheTtlSecs
    /\ \A t \in Threads : mMappings[t] = mCache[1].mappings

(***************************************************************************)
(* The connection threads (specifications SpecMain, SpecDaemon and Spec).  *)
(***************************************************************************)
\* C27: a handler that is slow or blocked while it serves one connection
\* never delays the handling of a notification that arrived on another
\* connection: no thread waits for the daemon state mutex while its holder
\* runs the commands that rebuild the display mappings.
C27_NoThreadWaitsForSlowHandler ==
    \A t, u \in Threads :
        (t # u /\ stateLock = t /\ mPc[t] = "build") => mPc[u] # "lock"

\* The handlers of the arm of on-system-wake run one after the other.
WakeOrder(t) ==
    /\ (dPc[t] = "wait" /\ dEvent'[t] = "on-system-wake") =>
            (dPc'[t] = "workspace" /\ pc'[t] = "gate")
    /\ (dEvent[t] = "on-system-wake" /\ dPc'[t] # dPc[t]) =>
            \/ dPc[t] = "workspace" /\ dPc'[t] = "battery"
            \/ dPc[t] = "battery" /\ dPc'[t] = "clock"
            \/ dPc[t] = "clock" /\ dPc'[t] = "teams"
            \/ dPc[t] = "teams" /\ dPc'[t] = "wait"

\* The gate of handle_workspace_refresh decides in this step, for a line of
\* on-system-wake read by thread t.
WakeGateStep(t) ==
    dEvent[t] = "on-system-wake" /\ pc[t] = "gate" /\ pc'[t] # "gate"

\* An accepted notification is less than the debounce window before now[t].
InsideDebounceWindow(t) ==
    /\ last_workspace_change # None
    /\ now[t] - last_workspace_change[1] < DebounceMs

\* C28 as stated: every on-system-wake line triggers, in this order, a
\* workspace refresh that runs a reconciliation pass, a battery refresh, a
\* clock refresh and a teams refresh.
C28_WakeRunsPassAndRefreshes ==
    [][\A t \in Threads :
          /\ WakeOrder(t)
          /\ WakeGateStep(t) => pc'[t] = "settle"]_vars

\* C28, amended: every on-system-wake line calls, in this order,
\* handle_workspace_refresh, the battery refresh, the clock refresh and the
\* teams refresh; handle_workspace_refresh runs a reconciliation pass unless
\* an accepted notification is less than 100 ms old, and then it returns at
\* once; the three other refreshes run in both cases.
C28_WakeCallsHandlersInOrder ==
    [][\A t \in Threads :
          /\ WakeOrder(t)
          /\ WakeGateStep(t) =>
                IF InsideDebounceWindow(t)
                THEN pc'[t] = "idle"
                ELSE pc'[t] = "settle"]_vars

C28_Witness ==
    \E t, u \in Threads :
        /\ dEvent[t] = "on-system-wake"
        /\ dPc[t] = "teams"
        /\ dEvent[u] = "on-workspace-changed"
        /\ pc[u] = "settle"
        /\ Len(gateLog) = 2
        /\ gateLog[1].accepted
        /\ ~gateLog[2].accepted

\* The steps that change a field of DaemonState in the reconciliation pass.
PassWritesInCriticalSections ==
    /\ last_workspace_change' # last_workspace_change =>
            \E t \in Threads : pc[t] = "gate" /\ pc'[t] # "gate"
                               /\ previous_workspaces' = previous_workspaces
                               /\ front_app' = front_app
    /\ previous_workspaces' # previous_workspaces =>
            \E t \in Threads : SwapStep(t)
                               /\ last_workspace_change' = last_workspace_change
                               /\ front_app' = front_app

InPass == {"settle", "probe", "read", "swap", "render", "execute"}

\* C30: when two accepted passes overlap, their batches reach the renderer in
\* the order in which the passes were accepted: the pass accepted later
\* delivers a batch only when the earlier one has delivered all of its own.
C30_DeliveredInAcceptanceOrder ==
    [][\A t, u \in Threads :
          (/\ t # u
           /\ pc[t] \in InPass
           /\ pc[u] = "execute"
           /\ now[t] < now[u]
           /\ batches'[u] # batches[u])
          => (pc[t] = "execute" /\ DOMAIN batches[t] = {})]_vars

\* No thread is inside a handler.
AllWaiting == \A t \in Threads : dPc[t] = "wait"

\* C31: after any interleaving of concurrent calls of handle_focus_refresh
\* has finished, the app name delivered last to the renderer is
\* state.front_app, when no delivery failed.
C31_ShownAppIsFrontApp ==
    (AllWaiting /\ \A a \in DOMAIN focusResult : focusResult[a] # "err")
        => shown_app = front_app

\* C35: state.front_app keeps an app name only when the update for that name
\* is delivered: after a failed update_front_app, the deduplication check
\* does not drop a later notification for the same app.
C35_NotSuppressedAfterFailure ==
    [][\A t \in Threads :
          (dPc[t] = "focus" /\ dPc'[t] = "wait" /\ dApp[t] # "")
          => focusResult[dApp[t]] # "err"]_vars

(***************************************************************************)
(* The join of the three display maps (specification SpecBuild).           *)
(***************************************************************************)
\* The renderer maps display d to an OS display whose name is the name the
\* window manager reports for monitor m.
NameMatch(d, m) ==
    /\ d \in DOMAIN bmIn.sketchybar_map
    /\ m \in DOMAIN bmIn.aerospace_map
    /\ bmIn.sketchybar_map[d] \in DOMAIN bmIn.nsscreen_map
    /\ bmIn.nsscreen_map[bmIn.sketchybar_map[d]] = bmIn.aerospace_map[m]

Resolvable(d) == \E m \in MonitorIds : NameMatch(d, m)

ExampleResolved == bmIn = BuildExample => bmOut = Some(7 :> 3)

\* C22 as stated: build_mappings maps a renderer display id d to a monitor id
\* m exactly when the renderer maps d to an OS display whose name equals the
\* name the window manager reports for m; the example resolves to {7: 3}.
C22_MappedExactlyOnNameMatch ==
    bmOut # None =>
        /\ \A d \in RendererDisplayIds, m \in MonitorIds :
            (d \in DOMAIN bmOut[1] /\ bmOut[1][d] = m) <=> NameMatch(d, m)
        /\ ExampleResolved

\* C22, amended: build_mappings maps a renderer display id d to a monitor id
\* m only when the names match, and maps d to one such monitor whenever there
\* is one; of several monitors of that name it keeps one.  The example
\* resolves to {7: 3}.
C22_MappedToOneNameMatch ==
    bmOut # None =>
        /\ \A d \in DOMAIN bmOut[1] : NameMatch(d, bmOut[1][d])
        /\ \A d \in RendererDisplayIds : Resolvable(d) => d \in DOMAIN bmOut[1]
        /\ ExampleResolved

C22_Witness ==
    /\ bmOut = Some(7 :> 3 @@ 2 :> 3)
    /\ DOMAIN bmIn.aerospace_map = MonitorIds
    /\ bmIn.aerospace_map[1] = bmIn.aerospace_map[3]

\* C23 as stated: a renderer display id for which no monitor can be resolved
\* is kept in the resolved mapping, with the default display id 1.
C23_UnresolvedKeptWithDefault ==
    bmOut # None =>
        \A d \in DOMAIN bmIn.sketchybar_map :
            ~Resolvable(d) => (d \in DOMAIN bmOut[1] /\ bmOut[1][d] = 1)

\* C23, amended: a renderer display id for which no monitor can be resolved
\* is absent from the resolved mapping; the mapping holds no default for it.
C23_UnresolvedDropped ==
    bmOut # None =>
        \A d \in DOMAIN bmIn.sketchybar_map :
            ~Resolvable(d) => d \notin DOMAIN bmOut[1]

C23_Witness ==
    /\ bmOut = Some(7 :> 3)
    /\ 2 \in DOMAIN bmIn.sketchybar_map
    /\ bmIn.sketchybar_map[2] \notin DOMAIN bmIn.nsscreen_map

\* C37: the mapping returned is the one every call on the same three maps
\* returns, whatever the order in which the window manager's map is
\* iterated, and two renderer display ids of different OS displays never
\* map to the same monitor id.
C37_FunctionAndInjective ==
    bmOut # None =>
        /\ \A aero_order \in Perms(DOMAIN bmIn.aerospace_map) :
              bmOut[1] = build_mappings(bmIn.nsscreen_map, bmIn.sketchybar_map,
                                        bmIn.aerospace_map, aero_order)
        /\ \A d1, d2 \in DOMAIN bmOut[1] :
              bmIn.sketchybar_map[d1] # bmIn.sketchybar_map[d2]
                  => bmOut[1][d1] # bmOut[1][d2]

(***************************************************************************)
(* Claims checked against SpecBatch.                                       *)
(***************************************************************************)
\* The number of characters of a command before its i-th argument.
RECURSIVE ArgOffset(_, _)
ArgOffset(args, i) ==
    IF i = 1 THEN 0 ELSE ArgOffset(args, i - 1) + Len(args[i - 1]) + 1

\* The command holds every argument of the batch, in order, and nothing else
\* but one separator between two arguments.
CarriesAll(command, args) ==
    /\ Len(command) = ArgOffset(args, Len(args)) + Len(args[Len(args)])
    /\ \A i \in 1..Len(args) :
        SubSeq(command, ArgOffset(args, i) + 1,
               ArgOffset(args, i) + Len(args[i])) = args[i]

\* C19: execute on a batch with no operations returns success and delivers
\* nothing to the transport; execute on a batch with operations makes exactly
\* one delivery, which carries all the operations of the batch.
C19_ExecuteOneDelivery ==
    [][bExecs' # bExecs =>
        IF bArgs = <<>>
        THEN bResult' = "Ok" /\ bDelivered' = bDelivered
        ELSE /\ Len(bDelivered') = Len(bDelivered) + 1
             /\ SubSeq(bDelivered', 1, Len(bDelivered)) = bDelivered
             /\ CarriesAll(bDelivered'[Len(bDelivered')], bArgs)]_vars

C19_Witness ==
    /\ OpsMade = MaxOps
    /\ bExecs = 2
    /\ Len(bDelivered) = 1
    /\ CarriesAll(bDelivered[1], bArgs)
    /\ \E i \in 1..Len(bArgs) : ContainsSpace(bArgs[i])


\* A property written key="value" when the value is empty or holds one of the
\* characters of `quoting`, and key=value otherwise.
Serialized(prop, quoting) ==
    LET key == prop[1]
        value == prop[2]
    IN IF value = <<>> \/ \E i \in 1..Len(value) : value[i] \in quoting
       THEN key \o <<"=", DQ>> \o value \o <<DQ>>
       ELSE key \o <<"=">> \o value

\* A step of set: the args grow by --set, an item and the properties of some
\* call, each written as Serialized writes it.
SetStepWrites(quoting) ==
    (Len(bArgs') > Len(bArgs) /\ bArgs'[Len(bArgs) + 1] = DashSet) =>
        \E item \in BatchItems, props \in PropLists :
            bArgs' = bArgs \o <<DashSet, item>>
                           \o [i \in 1..Len(props) |-> Serialized(props[i], quoting)]

RECURSIVE SplitFrom(_, _, _)
SplitFrom(bytes, i, token) ==
    IF i > Len(bytes) THEN <<token>>
    ELSE IF bytes[i] = NUL
    THEN <<token>> \o SplitFrom(bytes, i + 1, <<>>)
    ELSE SplitFrom(bytes, i + 1, Append(token, bytes[i]))

SplitAtNul(message) == SplitFrom(SubSeq(message, 1, Len(message) - 1), 1, <<>>)

\* C36: the message of a batch, format_message(args joined by a space),
\* split at its NUL bytes, is the tokens of the calls in call order, every
\* key=value token with the value as it was passed to set.
C36_TokensRoundTrip ==
    bArgs # <<>> => SplitAtNul(format_message(Join(bArgs))) = bTokens

(***************************************************************************)
(* Claims checked against SpecFormat.                                      *)
(***************************************************************************)
\* The quoted segment the first i characters of a command leave open: the
\* quote character that opened it, or NoQuote.
RECURSIVE OpenQuote(_, _)
OpenQuote(m, i) ==
    IF i = 0 THEN NoQuote
    ELSE LET q == OpenQuote(m, i - 1)
         IN IF m[i] \notin {DQ, SQ} THEN q
            ELSE IF q = NoQuote THEN m[i]
            ELSE IF q = m[i] THEN NoQuote
            ELSE q

\* Character i opens or closes a quoted segment.
Delimits(m, i) == m[i] \in {DQ, SQ} /\ OpenQuote(m, i - 1) \in {NoQuote, m[i]}

\* Character i is outside every quoted segment.
Outside(m, i) == OpenQuote(m, i - 1) = NoQuote

\* The positions of a command that give a byte of the encoding, and the
\* place of such a position among them.
KeptPositions(m) == {i \in 1..Len(m) : ~Delimits(m, i)}
Rank(m, i) == Cardinality({j \in KeptPositions(m) : j <= i})

\* The byte a kept position gives when the characters of separators become
\* NUL outside quoted segments.
Image(m, i, separators) ==
    IF m[i] \in separators /\ Outside(m, i) THEN NUL ELSE m[i]

\* out is the kept positions' bytes in order, less `dropped` bytes at the
\* end, and then the terminator.
Encodes(out, m, separators, dropped) ==
    LET n == Cardinality(KeptPositions(m)) - dropped
    IN /\ Len(out) = n + 1
       /\ out[n + 1] = NUL
       /\ \A i \in KeptPositions(m) :
            Rank(m, i) <= n => out[Rank(m, i)] = Image(m, i, separators)

\* The converted command has more than one byte and both of its last two
\* bytes are NUL.
EndsWithTwoSeparators(m, separators) ==
    LET K == KeptPositions(m)
    IN /\ Cardinality(K) > 1
       /\ \A i \in K : Rank(m, i) >= Cardinality(K) - 1
                          => Image(m, i, separators) = NUL

ExpectedHelloWorld ==
    <<"-", "-", "s", "e", "t", NUL, "i", "t", "e", "m", NUL,
      "l", "a", "b", "e", "l", "=", "h", "e", "l", "l", "o", SP,
      "w", "o", "r", "l", "d", NUL>>

ExpectedIconX ==
    <<"-", "-", "s", "e", "t", NUL, "i", "t", "e", "m", NUL,
      "i", "c", "o", "n", "=", "X", NUL>>

ExamplesEncoded ==
    /\ fmIn \in {TestDoubleQuotes, TestSingleQuotes} => fmOut[1] = ExpectedHelloWorld
    /\ fmIn = TestNoQuotes => fmOut[1] = ExpectedIconX

\* C20 as stated: for every command string, format_message replaces each
\* whitespace character outside a quoted segment with a NUL byte, removes the
\* quote characters, keeps spaces inside quoted segments and ends the output
\* with a NUL terminator; the hello-world example encodes as given.
C20_WhitespaceToNul ==
    fmOut # None =>
        /\ Encodes(fmOut[1], fmIn, {SP, TAB}, 0)
        /\ ExamplesEncoded

\* C20, amended: format_message replaces each space character, and no other
\* whitespace, outside a quoted segment with a NUL byte, removes the quote
\* characters that open and close a segment, keeps every character inside a
\* segment, drops the last byte of a converted text of more than one byte
\* that ends with two NULs, and ends the output with a NUL terminator; the
\* commands of the tests encode as the tests say.
C20_SpacesToNul ==
    fmOut # None =>
        /\ Encodes(fmOut[1], fmIn, {SP},
                   IF EndsWithTwoSeparators(fmIn, {SP}) THEN 1 ELSE 0)
        /\ ExamplesEncoded

C20_Witness ==
    /\ fmIn = TestDoubleQuotes
    /\ fmOut = Some(ExpectedHelloWorld)

====
